---- MODULE Spec2Model ----
(***************************************************************************)
(* URL risk-scoring engine of zero-trust-firewall/backend: the threat      *)
(* intelligence store, the aggregator PhishingDetector.analyze_url, the    *)
(* rule engine's tiered aggregation, the statistical (ML) classifier and   *)
(* the pattern classifier.                                                 *)
(*                                                                         *)
(* Representation.  A domain name is the sequence of its dot-separated     *)
(* labels (<<"evil","com">> is "evil.com"), so str.split('.') is the       *)
(* identity on names and '.'.join(parts[i:]) is a SubSeq.  A raw string    *)
(* handed to the store is a record [name, upper, pad]: upper says that it  *)
(* contains upper-case letters, pad that it carries surrounding blanks.    *)
(* Scores are integers in units of 1/10000 (Unit is 1.0); the weighted sum *)
(* of the aggregator is kept in units of 1/1000000 (Micro is 1.0).         *)
(***************************************************************************)
EXTENDS Integers, Sequences, FiniteSets, TLC

Unit == 10000
Micro == 1000000

(***************************************************************************)
(* Bounds of the model.                                                    *)
(***************************************************************************)
MaxClock == 1

(***************************************************************************)
(* Strings.                                                                *)
(***************************************************************************)
Str(name) == [name |-> name, upper |-> FALSE, pad |-> FALSE]

\* str.lower()
Lower(s) == [s EXCEPT !.upper = FALSE]

\* str.strip()
Strip(s) == [s EXCEPT !.pad = FALSE]

\* the indicator lower-cased and left untrimmed
LowerWithoutStrip(s) == [s EXCEPT !.upper = FALSE]

\* domain.lower().strip()
LowerStrip(s) == Strip(Lower(s))

\* '.'.join(parts[i:]) for the 0-based index i of the code
JoinFrom(parts, i) == SubSeq(parts, i + 1, Len(parts))

(***************************************************************************)
(* threat_intel.py: ThreatIntelligenceService                              *)
(***************************************************************************)
default_whitelist ==
    { Str(<<"google", "com">>), Str(<<"youtube", "com">>), Str(<<"facebook", "com">>),
      Str(<<"twitter", "com">>), Str(<<"instagram", "com">>), Str(<<"linkedin", "com">>),
      Str(<<"github", "com">>), Str(<<"microsoft", "com">>), Str(<<"apple", "com">>),
      Str(<<"amazon", "com">>), Str(<<"netflix", "com">>), Str(<<"reddit", "com">>),
      Str(<<"wikipedia", "org">>), Str(<<"stackoverflow", "com">>),
      Str(<<"cloudflare", "com">>), Str(<<"googleapis", "com">>),
      Str(<<"gstatic", "com">>), Str(<<"googleusercontent", "com">>) }

\* the membership test shared by is_blacklisted and is_whitelisted: the exact
\* name, then parts[i:] for i in range(len(parts) - 1)
ParentIndexes(parts) == 0 .. (Len(parts) - 2)

is_blacklisted_exact(domain, bl) == LowerStrip(domain) \in bl

is_blacklisted(domain, bl) ==
    LET d == LowerStrip(domain)
        parts == d.name
    IN  \/ d \in bl
        \/ \E i \in ParentIndexes(parts) : Str(JoinFrom(parts, i)) \in bl

is_whitelisted(domain, wl) ==
    LET d == LowerStrip(domain)
        parts == d.name
    IN  \/ d \in wl
        \/ \E i \in ParentIndexes(parts) : Str(JoinFrom(parts, i)) \in wl

check_domain_both(domain, bl, wl) ==
    LET d == LowerStrip(domain)
    IN  [domain |-> d, is_blacklisted |-> is_blacklisted(d, bl),
         is_whitelisted |-> is_whitelisted(d, wl),
         threat_level |-> IF is_blacklisted(d, bl) THEN "malicious"
                          ELSE IF is_whitelisted(d, wl) THEN "safe" ELSE "unknown"]

check_domain(domain, bl, wl) ==
    LET d == LowerStrip(domain)
    IN  IF is_whitelisted(d, wl)
        THEN [domain |-> d, is_blacklisted |-> FALSE, is_whitelisted |-> TRUE,
              threat_level |-> "safe"]
        ELSE IF is_blacklisted(d, bl)
        THEN [domain |-> d, is_blacklisted |-> TRUE, is_whitelisted |-> FALSE,
              threat_level |-> "malicious"]
        ELSE [domain |-> d, is_blacklisted |-> FALSE, is_whitelisted |-> FALSE,
              threat_level |-> "unknown"]

\* update_blacklist, lines 36-40: the domains of the lines of a feed; a line
\* is the record [text, comment] of its raw string and whether it starts
\* with '#', the empty name is a blank line
parse_feed(lines) ==
    { LowerStrip(l.text) : l \in { l \in lines : l.text.name # <<>> /\ ~l.comment } }

\* update_blacklist, line 42: self.blacklist.update(domains)
replace_feed(bl, domains) == domains

merge_feed(bl, domains) == bl \cup domains

(***************************************************************************)
(* URLs.  A URL is the record [https, host, port, tail]: the scheme, the    *)
(* host name, the port written after the host ("" when there is none) and  *)
(* the rest of the string (path and query).  The lexical scans of the code *)
(* (substring and regular-expression searches) are tabulated for the       *)
(* labels and tails of the model.                                          *)
(***************************************************************************)
Hosts ==
    { <<"google", "com">>, <<"evil", "com">>, <<"paypal", "evil", "com">>,
      <<"paypa1", "com">>, <<"192", "168", "1", "1">>, <<"paypal", "com">> }

Tails == { "/", "/login", "/a@b" }

Urls == [https : BOOLEAN, host : Hosts, port : {""}, tail : Tails]

\* the URLs of the scenarios of the detection pipeline: the hosts and paths
\* of the documented end-to-end scans, a path with a look-alike of a brand, a
\* path of 62 distinct characters, and a port outside 0..65535
ScanHosts ==
    { <<"paypal", "com">>, <<"paypa1-secure", "com">>,
      <<"paypal", "secure-login", "malicious", "com">>, <<"192", "168", "1", "1">> }

HighEntropyTail == "/ABCDEFGHIJKLMNOPQRSTUVWXYZabcdefghijklmnopqrstuvwxyz0123456789"

ScanTails == { "/login", "/signin", "/paypal/login.html", "/paypa1", HighEntropyTail }

Ports == { "", "99999" }

ScanUrls == [https : BOOLEAN, host : ScanHosts, port : Ports, tail : ScanTails]

AllUrls == Urls \cup ScanUrls

\* the characters of a label
Chars(label) ==
    CASE label = "google" -> <<"g", "o", "o", "g", "l", "e">>
      [] label = "paypal" -> <<"p", "a", "y", "p", "a", "l">>
      [] label = "paypa1" -> <<"p", "a", "y", "p", "a", "1">>
      [] label = "evil"   -> <<"e", "v", "i", "l">>
      [] label = "com"    -> <<"c", "o", "m">>
      [] label = "192"    -> <<"1", "9", "2">>
      [] label = "168"    -> <<"1", "6", "8">>
      [] label = "1"      -> <<"1">>
      [] label = "paypa"  -> <<"p", "a", "y", "p", "a">>
      [] label = "login"  -> <<"l", "o", "g", "i", "n">>
      [] label = "a"      -> <<"a">>
      [] label = "b"      -> <<"b">>
      [] label = "secure" -> <<"s", "e", "c", "u", "r", "e">>
      [] label = "signin" -> <<"s", "i", "g", "n", "i", "n">>
      [] label = "html"   -> <<"h", "t", "m", "l">>
      [] label = "malicious" -> <<"m", "a", "l", "i", "c", "i", "o", "u", "s">>
      [] label = "paypa1-secure" ->
             <<"p", "a", "y", "p", "a", "1", "-", "s", "e", "c", "u", "r", "e">>
      [] label = "secure-login" ->
             <<"s", "e", "c", "u", "r", "e", "-", "l", "o", "g", "i", "n">>
      [] label = "99999"  -> <<"9", "9", "9", "9", "9">>
      [] label = "abcdefghijklmnopqrstuvwxy" ->
             <<"a", "b", "c", "d", "e", "f", "g", "h", "i", "j", "k", "l", "m",
               "n", "o", "p", "q", "r", "s", "t", "u", "v", "w", "x", "y">>
      [] label = "zabcdefghijklmnopqrstuvwxyz" ->
             <<"z", "a", "b", "c", "d", "e", "f", "g", "h", "i", "j", "k", "l", "m",
               "n", "o", "p", "q", "r", "s", "t", "u", "v", "w", "x", "y", "z">>
      [] label = "0123456789" ->
             <<"0", "1", "2", "3", "4", "5", "6", "7", "8", "9">>
      [] label = "www"    -> <<"w", "w", "w">>
      [] label = "PAYPAL" -> <<"P", "A", "Y", "P", "A", "L">>
      [] label = "p[U+0430]ypal" -> <<"p", "U+0430", "y", "p", "a", "l">>
      [] label = "P[U+0410]YPAL" -> <<"P", "U+0410", "Y", "P", "A", "L">>

\* the public suffixes the hosts of the model end in
PublicSuffixes == { <<"com">> }

\* ip_pattern of URLAnalyzer: four dot-separated numbers 0..255
Octets == { "192", "168", "1" }

IsIPv4(name) == Len(name) = 4 /\ \A i \in 1 .. 4 : name[i] \in Octets

\* tldextract.extract(url): subdomain, domain label and suffix of the host;
\* an IP literal is returned whole as the domain, an unknown suffix is empty
TldExtract(url) ==
    LET h == url.host
        n == Len(h)
    IN  IF IsIPv4(h)
        THEN [subdomain |-> <<>>, domain |-> h, suffix |-> <<>>]
        ELSE IF n >= 2 /\ SubSeq(h, n, n) \in PublicSuffixes
        THEN [subdomain |-> SubSeq(h, 1, n - 2), domain |-> <<h[n - 1]>>,
              suffix |-> SubSeq(h, n, n)]
        ELSE [subdomain |-> SubSeq(h, 1, n - 1), domain |-> <<h[n]>>,
              suffix |-> <<>>]

\* domain = f"{extracted.domain}.{extracted.suffix}" if extracted.suffix else extracted.domain
RegisteredDomain(url) ==
    LET e == TldExtract(url) IN e.domain \o e.suffix

\* full_domain = f"{subdomain}.{domain}" if subdomain else domain
FullDomain(subdomain, domain) == subdomain \o domain

(***************************************************************************)
(* url_analyzer.py: URLAnalyzer.extract_features, the fields read by the   *)
(* rule engine and by the classifiers.                                     *)
(***************************************************************************)
\* words of SUSPICIOUS_KEYWORDS found in a tail and in a label
TailKeywords(tail) ==
    CASE tail = "/login"             -> {"login"}
      [] tail = "/signin"            -> {"signin"}
      [] tail = "/paypal/login.html" -> {"paypal", "login"}
      [] OTHER                       -> {}

LabelKeywords(label) ==
    CASE label = "google"        -> {"google"}
      [] label = "paypal"        -> {"paypal"}
      [] label = "paypa1-secure" -> {"secure"}
      [] label = "secure-login"  -> {"secure", "login"}
      [] OTHER                   -> {}

\* _find_suspicious_keywords(decoded_url)
find_suspicious_keywords(url) ==
    TailKeywords(url.tail) \cup UNION { LabelKeywords(url.host[i]) : i \in 1 .. Len(url.host) }

\* names of TARGET_BRANDS occurring in a label
LabelBrandsWithoutPaypal(label) ==
    CASE label = "google" -> {"google"}
      [] OTHER            -> {}

LabelBrands(label) ==
    CASE label = "google" -> {"google"}
      [] label = "paypal" -> {"paypal"}
      [] OTHER            -> {}

\* _has_brand_in_subdomain(subdomain)
has_brand_in_subdomain(subdomain) ==
    \E i \in 1 .. Len(subdomain) : LabelBrands(subdomain[i]) # {}

SchemeLen(url) == IF url.https THEN 8 ELSE 7

TailLen(tail) ==
    CASE tail = "/"                  -> 1
      [] tail = "/login"             -> 6
      [] tail = "/a@b"               -> 4
      [] tail = "/signin"            -> 7
      [] tail = "/paypal/login.html" -> 18
      [] tail = "/paypa1"            -> 7
      [] tail = HighEntropyTail      -> 63

\* the port with its colon
PortLen(port) == IF port = "" THEN 0 ELSE 1 + Len(Chars(port))

RECURSIVE NameLen(_)
NameLen(name) ==
    IF name = <<>> THEN 0
    ELSE Len(Chars(name[1])) + (IF Len(name) > 1 THEN 1 ELSE 0) + NameLen(Tail(name))

\* len(decoded_url)
UrlLength(url) ==
    SchemeLen(url) + NameLen(url.host) + PortLen(url.port) + TailLen(url.tail)

Min(a, b) == IF a <= b THEN a ELSE b

Max(a, b) == IF a >= b THEN a ELSE b

\* round(x, 4) of a value x given in 1/1000000, in units of 1/10000
\* (round-half-even)
Round4(x) ==
    LET q == x \div 100
        r == x % 100
    IN  IF r > 50 \/ (r = 50 /\ q % 2 = 1) THEN q + 1 ELSE q

Min3(a, b, c) == Min(a, Min(b, c))

\* _levenshtein_distance(s1, s2), the same code in URLAnalyzer and in
\* EnhancedCharacterModel; one row of it: current_row for the character c1
RECURSIVE LevRow(_, _, _, _)
LevRow(current_row, previous_row, c1, s2) ==
    IF Len(current_row) = Len(s2) + 1 THEN current_row
    ELSE LET n == Len(current_row)
             insertions == previous_row[n + 1] + 1
             deletions == current_row[n] + 1
             substitutions == previous_row[n] + (IF c1 # s2[n] THEN 1 ELSE 0)
         IN  LevRow(Append(current_row, Min3(insertions, deletions, substitutions)),
                    previous_row, c1, s2)

RECURSIVE LevRows(_, _, _, _)
LevRows(previous_row, s1, i, s2) ==
    IF i > Len(s1) THEN previous_row
    ELSE LET current_row == LevRow(<<i>>, previous_row, s1[i], s2)
         IN  \* the row is complete before the next character is read
             IF Len(current_row) = Len(s2) + 1
             THEN LevRows(current_row, s1, i + 1, s2)
             ELSE <<>>

RECURSIVE levenshtein_distance(_, _)
levenshtein_distance(s1, s2) ==
    IF Len(s1) < Len(s2) THEN levenshtein_distance(s2, s1)
    ELSE IF Len(s2) = 0 THEN Len(s1)
    ELSE LevRows([j \in 1 .. Len(s2) + 1 |-> j - 1], s1, 1, s2)[Len(s2) + 1]

\* _calculate_entropy(decoded_url) in units of 1/10000.  The Shannon entropy of
\* a URL of the model lies between 5.76 and 5.90 bits when its path is the one
\* of 62 distinct characters and between 3.22 and 4.37 bits otherwise; the
\* feature keeps the lower end of the first range, above every threshold the
\* rules compare with, and the upper end of the second, below all of them.
calculate_entropy(url) == IF url.tail = HighEntropyTail THEN 57600 ELSE 43700

\* TARGET_BRANDS of URLAnalyzer, the entries within reach of the labels of the
\* model, in the order of the list
TARGET_BRANDS == <<"google", "paypal">>

\* main_domain.replace('0', 'o').replace('1', 'l').replace('1', 'i')
SubstituteDigits(s) ==
    [i \in 1 .. Len(s) |-> IF s[i] = "0" THEN "o" ELSE IF s[i] = "1" THEN "l" ELSE s[i]]

\* sum(1 for a, b in zip(main_domain, brand) if a != b)
DiffCount(s1, s2) ==
    Cardinality({ i \in 1 .. Min(Len(s1), Len(s2)) : s1[i] # s2[i] })

\* the body of the loop of URLAnalyzer._detect_typosquatting: does the label
\* main_domain imitate brand
ImitatesBrand(main_domain, brand) ==
    LET m == Chars(main_domain)
        b == Chars(brand)
        distance == levenshtein_distance(m, b)
        max_len == Max(Len(m), Len(b))
        normalized == SubstituteDigits(m)
    IN  /\ main_domain # brand
        /\ \/ distance <= 2 /\ max_len >= 4
           \/ normalized = b
           \/ levenshtein_distance(normalized, b) <= 1
           \/ brand \in LabelBrands(main_domain) /\ Len(m) <= Len(b) + 3
           \/ Len(m) = Len(b) /\ DiffCount(m, b) <= 2

\* URLAnalyzer._detect_typosquatting(domain): the first brand of TARGET_BRANDS
\* the first label of the domain imitates, or None
URLAnalyzer_detect_typosquatting(domain) ==
    IF Len(domain) < 2 THEN "None"
    ELSE LET hits == { i \in 1 .. Len(TARGET_BRANDS) :
                          ImitatesBrand(domain[1], TARGET_BRANDS[i]) }
         IN  IF hits = {} THEN "None"
             ELSE TARGET_BRANDS[CHOOSE i \in hits : \A j \in hits : i <= j]

\* the score of one brand in _get_typosquatting_score, in 1/1000000
SimilarityScore(main_domain, brand) ==
    LET m == Chars(main_domain)
        b == Chars(brand)
        distance == levenshtein_distance(m, b)
        max_len == Max(Len(m), Len(b))
        similarity == ((max_len - distance) * Micro) \div max_len
    IN  IF main_domain = brand \/ max_len = 0 THEN 0
        ELSE IF 10 * (max_len - distance) > 7 * max_len
        THEN IF Len(m) = Len(b) THEN Min(similarity + 100000, Micro) ELSE similarity
        ELSE 0

RECURSIVE BestScore(_, _, _)
BestScore(best_score, main_domain, i) ==
    IF i > Len(TARGET_BRANDS) THEN best_score
    ELSE BestScore(Max(best_score, SimilarityScore(main_domain, TARGET_BRANDS[i])),
                   main_domain, i + 1)

\* URLAnalyzer._get_typosquatting_score(domain), in units of 1/10000
get_typosquatting_score(domain) ==
    IF Len(domain) < 2 THEN 0 ELSE Round4(BestScore(0, domain[1], 1))

\* parsed.port raises ValueError for a port outside 0..65535
PortOutOfRange(port) == port = "99999"

\* the except branch of extract_features: the minimal features
minimal_features(url) ==
    [ url_length |-> UrlLength(url),
      domain_length |-> 0,
      error |-> "Port out of range 0-65535",
      has_https |-> url.https,
      entropy |-> calculate_entropy(url),
      suspicious_keywords |-> {},
      num_suspicious_keywords |-> 0 ]

extract_features(url) ==
    LET e == TldExtract(url)
        domain == e.domain \o e.suffix
        subdomain == e.subdomain
    IN  IF PortOutOfRange(url.port) THEN minimal_features(url) ELSE
        [ url_length |-> UrlLength(url),
          has_ip |-> IsIPv4(domain),
          has_https |-> url.https,
          has_at_symbol |-> url.tail = "/a@b",
          has_double_slash_redirect |-> FALSE,
          tld |-> e.suffix,
          suspicious_tld |-> FALSE,
          subdomain_count |-> Len(subdomain),
          suspicious_keywords |-> find_suspicious_keywords(url),
          is_shortened |-> FALSE,
          has_brand_in_subdomain |-> has_brand_in_subdomain(subdomain),
          excessive_subdomains |-> Len(subdomain) > 3,
          entropy |-> calculate_entropy(url),
          domain |-> domain,
          subdomain |-> subdomain,
          path |-> url.tail,
          typosquatting_target |-> URLAnalyzer_detect_typosquatting(domain),
          typosquatting_score |-> get_typosquatting_score(domain),
          is_typosquatting |-> get_typosquatting_score(domain) > 7000 ]

(***************************************************************************)
(* rule_engine.py                                                          *)
(***************************************************************************)
KNOWN_LEGITIMATE_DOMAINS ==
    { <<"google", "com">>, <<"www", "google", "com">>, <<"mail", "google", "com">>,
      <<"paypal", "com">>, <<"www", "paypal", "com">>, <<"amazon", "com">>,
      <<"microsoft", "com">>, <<"apple", "com">>, <<"github", "com">> }

\* the defaults of features.get(key, default) in the rules: False, 0, '' and
\* [] according to the type of the feature
FeatureDefaults ==
    [ url_length |-> 0, has_ip |-> FALSE, has_https |-> FALSE, has_at_symbol |-> FALSE,
      has_double_slash_redirect |-> FALSE, tld |-> <<>>, suspicious_tld |-> FALSE,
      subdomain_count |-> 0, suspicious_keywords |-> {}, is_shortened |-> FALSE,
      has_brand_in_subdomain |-> FALSE, excessive_subdomains |-> FALSE,
      entropy |-> 0, domain |-> <<>>, subdomain |-> <<>>, path |-> "" ]

\* features.get(key, default) for every key the rules read
FeaturesGet(features) ==
    [ key \in DOMAIN FeatureDefaults |->
          IF key \in DOMAIN features THEN features[key] ELSE FeatureDefaults[key] ]

\* str.lower() on the labels of a name: the labels of the model are in lower
\* case but for "PAYPAL" and for "P[U+0410]YPAL", whose second character is
\* the Cyrillic capital that lowers to U+0430
LowerLabel(label) ==
    CASE label = "PAYPAL"        -> "paypal"
      [] label = "P[U+0410]YPAL" -> "p[U+0430]ypal"
      [] OTHER                   -> label

LowerName(name) == [i \in 1 .. Len(name) |-> LowerLabel(name[i])]

\* the Latin letter each character of homograph_chars looks like; the
\* characters are written as their code points
homograph_chars ==
    [ c \in { "U+0430", "U+0435", "U+043E", "U+0440", "U+0441", "U+0443", "U+0445",
              "U+0455", "U+0456", "U+0458", "U+0501", "U+0261", "U+0251", "U+03BF",
              "U+03BD", "U+03C9", "U+03C4" } |->
          CASE c \in {"U+0430", "U+0251"} -> "a"
            [] c = "U+0435" -> "e"
            [] c \in {"U+043E", "U+03BF"} -> "o"
            [] c = "U+0440" -> "p"
            [] c = "U+0441" -> "c"
            [] c = "U+0443" -> "y"
            [] c = "U+0445" -> "x"
            [] c = "U+0455" -> "s"
            [] c = "U+0456" -> "i"
            [] c = "U+0458" -> "j"
            [] c = "U+0501" -> "d"
            [] c = "U+0261" -> "g"
            [] c = "U+03BD" -> "v"
            [] c = "U+03C9" -> "w"
            [] c = "U+03C4" -> "t" ]

\* a test of the allow-list that reads every look-alike character as the
\* Latin letter it imitates
LookalikeLabel(label) ==
    IF \E i \in 1 .. Len(Chars(label)) : Chars(label)[i] \in DOMAIN homograph_chars
    THEN CHOOSE l \in {"paypal"} :
             Chars(l) = [i \in 1 .. Len(Chars(label)) |->
                            IF Chars(label)[i] \in DOMAIN homograph_chars
                            THEN homograph_chars[Chars(label)[i]]
                            ELSE Chars(label)[i]]
    ELSE label

is_known_legitimate_domain_lookalike(url, features) ==
    LET f == FeaturesGet(features)
        domain == [i \in 1 .. Len(f.domain) |-> LookalikeLabel(LowerLabel(f.domain[i]))]
        full_domain == FullDomain(LowerName(f.subdomain), domain)
    IN  \/ domain \in KNOWN_LEGITIMATE_DOMAINS
        \/ full_domain \in KNOWN_LEGITIMATE_DOMAINS
        \/ (domain # <<>> /\ domain[1] = "www" /\ Tail(domain) \in KNOWN_LEGITIMATE_DOMAINS)

is_known_legitimate_domain(url, features) ==
    LET f == FeaturesGet(features)
        domain == LowerName(f.domain)
        full_domain == FullDomain(LowerName(f.subdomain), domain)
    IN  \/ domain \in KNOWN_LEGITIMATE_DOMAINS
        \/ full_domain \in KNOWN_LEGITIMATE_DOMAINS
        \/ (domain # <<>> /\ domain[1] = "www" /\ Tail(domain) \in KNOWN_LEGITIMATE_DOMAINS)

severity_order == <<"info", "low", "medium", "high", "critical">>

SeverityIndex(sev) == CHOOSE i \in 1 .. Len(severity_order) : severity_order[i] = sev

\* RuleEngine.rules, in the order of RuleEngine.__init__; weight in 1/10000
rules ==
    << [name |-> "Typosquatting Attack", severity |-> "critical", weight |-> 9500],
       [name |-> "Potential Homograph Attack", severity |-> "critical", weight |-> 9000],
       [name |-> "Brand Mimicry", severity |-> "critical", weight |-> 8500],
       [name |-> "Data URI Scheme", severity |-> "critical", weight |-> 9000],
       [name |-> "IP Address in URL", severity |-> "high", weight |-> 8000],
       [name |-> "At Symbol in URL", severity |-> "high", weight |-> 7000],
       [name |-> "Brand in Subdomain", severity |-> "high", weight |-> 8000],
       [name |-> "Missing HTTPS on Sensitive Page", severity |-> "high", weight |-> 7000],
       [name |-> "Suspicious TLD", severity |-> "medium", weight |-> 4000],
       [name |-> "Suspicious Keywords", severity |-> "medium", weight |-> 4000],
       [name |-> "Excessive Subdomains", severity |-> "medium", weight |-> 5000],
       [name |-> "High Entropy URL", severity |-> "medium", weight |-> 3500],
       [name |-> "Double Slash Redirect", severity |-> "medium", weight |-> 6000],
       [name |-> "Random String Domain", severity |-> "medium", weight |-> 6000],
       [name |-> "Suspicious Path Pattern", severity |-> "medium", weight |-> 5000],
       [name |-> "Multiple Hyphens in Domain", severity |-> "medium", weight |-> 4000],
       [name |-> "Abnormally Long URL", severity |-> "low", weight |-> 2000],
       [name |-> "URL Shortener", severity |-> "low", weight |-> 3000],
       [name |-> "Missing HTTPS", severity |-> "low", weight |-> 3000] >>

always_run_rules == {"Data URI Scheme", "Potential Homograph Attack"}

\* lexical tables of the string rules for the labels and tails of the model
TyposquatVariantLabels == {"paypa1", "paypa1-secure"}  \* labels containing a listed variant

\* _normalize_domain: the brand a label contains once its digits are replaced
\* by the letters they stand for
NormalizedBrands(label) ==
    IF label \in {"paypa1", "paypa1-secure"} THEN {"paypal"} ELSE LabelBrands(label)

\* suspicious_patterns of TyposquattingRule: a brand, an optional "-" or ".",
\* and one of the eight keywords, or the reverse; the labels that end with or
\* start with a brand of the pattern, and with a keyword of the pattern
BrandEdgeLabels == {"paypal", "google"}

KeywordStartLabels == {"secure", "login", "secure-login"}

KeywordEndLabels == {"secure", "login", "secure-login", "paypa1-secure"}

BrandKeywordPattern(full_domain) ==
    \E i \in 1 .. Len(full_domain) - 1 :
        \/ full_domain[i] \in BrandEdgeLabels /\ full_domain[i + 1] \in KeywordStartLabels
        \/ full_domain[i] \in KeywordEndLabels /\ full_domain[i + 1] \in BrandEdgeLabels

\* a label with a character of homograph_chars
HasHomographChar(label) ==
    \E i \in 1 .. Len(Chars(label)) : Chars(label)[i] \in DOMAIN homograph_chars

BrandSuffixLabels == {}                   \* labels with brand-suffix or suffix-brand

RandomLookingLabels == {}                 \* labels matching one of unusual_patterns

SuspiciousPathTails == {}                 \* tails matching one of suspicious_paths

DataUriTails == {"/data:text/html"}       \* tails containing 'data:text/html'

HyphenCount(label) == 0                   \* main_domain.count('-')

high_risk_keywords == {"verify", "suspend", "confirm", "unlock", "unusual", "limited"}

NoHTTPS_sensitive == {"login", "signin", "password", "account", "banking", "payment"}

sensitive_keywords ==
    {"login", "signin", "password", "account", "banking", "payment", "verify",
     "secure", "credential", "authenticate", "wallet", "crypto"}

NameLabels(name) == { name[i] : i \in 1 .. Len(name) }

NameBrands(name) == UNION { LabelBrands(l) : l \in NameLabels(name) }

NoMatch == [matched |-> FALSE, score |-> 0]

Match(score) == [matched |-> TRUE, score |-> score]

\* rule.check(url, features) of the rule called name: (matched, score)
RuleCheck(name, weight, url, features) ==
    LET f == FeaturesGet(features)
        full_domain == FullDomain(f.subdomain, f.domain)
        main_domain == IF f.domain = <<>> THEN "" ELSE f.domain[1]
        kw == f.suspicious_keywords
        high_risk_found == kw \cap high_risk_keywords
    IN  CASE name = "Typosquatting Attack" ->
               IF NameLabels(full_domain) \cap TyposquatVariantLabels # {}
               THEN Match(weight)
               ELSE IF UNION { NormalizedBrands(l) : l \in NameLabels(full_domain) }
                           \ NameBrands(full_domain) # {}
               THEN Match(weight)
               ELSE IF BrandKeywordPattern(full_domain)
               THEN Match((weight * 8) \div 10)
               ELSE NoMatch
          [] name = "Potential Homograph Attack" ->
               IF \E label \in NameLabels(f.domain) : HasHomographChar(label)
               THEN Match(weight) ELSE NoMatch
          [] name = "Brand Mimicry" ->
               IF \/ NameLabels(full_domain) \cap BrandSuffixLabels # {}
                  \/ NameBrands(f.subdomain) \ NameBrands(f.domain) # {}
               THEN Match(weight) ELSE NoMatch
          [] name = "Data URI Scheme" ->
               IF url.tail \in DataUriTails THEN Match(weight) ELSE NoMatch
          [] name = "IP Address in URL" ->
               IF f.has_ip THEN Match(weight) ELSE NoMatch
          [] name = "At Symbol in URL" ->
               IF f.has_at_symbol THEN Match(weight) ELSE NoMatch
          [] name = "Brand in Subdomain" ->
               IF f.has_brand_in_subdomain THEN Match(weight) ELSE NoMatch
          [] name = "Missing HTTPS on Sensitive Page" ->
               IF ~f.has_https /\ kw \cap sensitive_keywords # {}
               THEN Match(weight) ELSE NoMatch
          [] name = "Suspicious TLD" ->
               IF f.suspicious_tld THEN Match(weight) ELSE NoMatch
          [] name = "Suspicious Keywords" ->
               IF Cardinality(high_risk_found) >= 2 THEN Match(weight)
               ELSE IF Cardinality(kw) >= 3 THEN Match((weight * 7) \div 10)
               ELSE IF Cardinality(high_risk_found) = 1 THEN Match(weight \div 2)
               ELSE NoMatch
          [] name = "Excessive Subdomains" ->
               IF f.excessive_subdomains THEN Match(weight) ELSE NoMatch
          [] name = "High Entropy URL" ->
               IF f.entropy > 48000 /\ f.url_length < 80 THEN Match(weight)
               ELSE IF f.entropy > 52000 THEN Match((weight * 8) \div 10)
               ELSE NoMatch
          [] name = "Double Slash Redirect" ->
               IF f.has_double_slash_redirect THEN Match(weight) ELSE NoMatch
          [] name = "Random String Domain" ->
               IF main_domain = "" \/ Len(Chars(main_domain)) < 5 THEN NoMatch
               ELSE IF main_domain \in RandomLookingLabels THEN Match(weight)
               ELSE IF f.entropy > 45000 /\ Len(Chars(main_domain)) > 10
               THEN Match((weight * 8) \div 10)
               ELSE NoMatch
          [] name = "Suspicious Path Pattern" ->
               IF f.path \in SuspiciousPathTails THEN Match(weight) ELSE NoMatch
          [] name = "Multiple Hyphens in Domain" ->
               IF main_domain = "" THEN NoMatch
               ELSE IF HyphenCount(main_domain) >= 4 THEN Match(weight)
               ELSE IF HyphenCount(main_domain) = 3 THEN Match((weight * 6) \div 10)
               ELSE NoMatch
          [] name = "Abnormally Long URL" ->
               IF f.url_length > 150 /\ (f.suspicious_tld \/ f.has_ip) THEN Match(weight)
               ELSE IF f.url_length > 200 THEN Match(weight)
               ELSE NoMatch
          [] name = "URL Shortener" ->
               IF f.is_shortened THEN Match(weight) ELSE NoMatch
          [] name = "Missing HTTPS" ->
               IF ~f.has_https /\ kw \cap NoHTTPS_sensitive # {}
               THEN Match(weight) ELSE NoMatch

\* the loop of RuleEngine.analyze over rule_list[i..]: the matched rules in
\* catalogue order, the rules outside always_run_rules being skipped for a
\* known legitimate domain
\* the loop ended at the first critical rule that matches
RECURSIVE RunRulesFirstCritical(_, _, _, _, _)
RunRulesFirstCritical(rule_list, i, is_legitimate, url, features) ==
    IF i > Len(rule_list) THEN <<>>
    ELSE LET rule == rule_list[i]
             rest == RunRulesFirstCritical(rule_list, i + 1, is_legitimate, url, features)
         IN  IF is_legitimate /\ rule.name \notin always_run_rules THEN rest
             ELSE LET c == RuleCheck(rule.name, rule.weight, url, features)
                  IN  IF c.matched
                      THEN <<[name |-> rule.name, score |-> c.score,
                              severity |-> rule.severity]>>
                               \o (IF rule.severity = "critical" THEN <<>> ELSE rest)
                      ELSE rest

RECURSIVE RunRules(_, _, _, _, _)
RunRules(rule_list, i, is_legitimate, url, features) ==
    IF i > Len(rule_list) THEN <<>>
    ELSE LET rule == rule_list[i]
             rest == RunRules(rule_list, i + 1, is_legitimate, url, features)
         IN  IF is_legitimate /\ rule.name \notin always_run_rules THEN rest
             ELSE LET c == RuleCheck(rule.name, rule.weight, url, features)
                  IN  IF c.matched
                      THEN <<[name |-> rule.name, score |-> c.score,
                              severity |-> rule.severity]>> \o rest
                      ELSE rest

CountSeverity(matched_rules, sev) ==
    Cardinality({ i \in 1 .. Len(matched_rules) : matched_rules[i].severity = sev })

\* max_severity as tracked by the loop of RuleEngine.analyze
MaxSeverity(matched_rules) ==
    LET idx == { SeverityIndex(matched_rules[i].severity) : i \in 1 .. Len(matched_rules) } \cup {1}
    IN  severity_order[CHOOSE m \in idx : \A k \in idx : k <= m]

\* lines 597-614 of RuleEngine.analyze: the score of the highest matched
\* severity, in units of 1/10000, for a non-empty list of matched rules
TierScoreLooseCap(matched_rules) ==
    LET max_severity == MaxSeverity(matched_rules)
    IN  IF max_severity = "critical"
        THEN Min(8500 + (CountSeverity(matched_rules, "critical") - 1) * 500, Unit)
        ELSE IF max_severity = "high"
        THEN Min(6000 + (CountSeverity(matched_rules, "high") - 1) * 1000, 9500)
        ELSE IF max_severity = "medium"
        THEN Min(3000 + (CountSeverity(matched_rules, "medium") - 1) * 1000, 6000)
        ELSE Min(1000 + (Len(matched_rules) - 1) * 500, 3000)

TierScore(matched_rules) ==
    LET max_severity == MaxSeverity(matched_rules)
    IN  IF max_severity = "critical"
        THEN Min(8500 + (CountSeverity(matched_rules, "critical") - 1) * 500, Unit)
        ELSE IF max_severity = "high"
        THEN Min(6000 + (CountSeverity(matched_rules, "high") - 1) * 1000, 8500)
        ELSE IF max_severity = "medium"
        THEN Min(3000 + (CountSeverity(matched_rules, "medium") - 1) * 1000, 6000)
        ELSE Min(1000 + (Len(matched_rules) - 1) * 500, 3000)

\* normalized_score of RuleEngine.analyze, in units of 1/10000
NormalizedScoreNoCriticalBoost(matched_rules) ==
    IF matched_rules = <<>> THEN 0
    ELSE LET severity_types ==
                 Cardinality({ matched_rules[i].severity : i \in 1 .. Len(matched_rules) })
         IN  IF severity_types >= 2 /\ MaxSeverity(matched_rules) # "critical"
             THEN Min(TierScore(matched_rules) + 1000, Unit)
             ELSE TierScore(matched_rules)

NormalizedScore(matched_rules) ==
    IF matched_rules = <<>> THEN 0
    ELSE LET severity_types ==
                 Cardinality({ matched_rules[i].severity : i \in 1 .. Len(matched_rules) })
         IN  IF severity_types >= 2
             THEN Min(TierScore(matched_rules) + 1000, Unit)
             ELSE TierScore(matched_rules)

\* lines 621-628 of RuleEngine.analyze: the returned record
RuleResult(matched_rules, rule_list, is_legitimate) ==
    [ matched_rules |-> matched_rules,
      rule_score |-> NormalizedScore(matched_rules),
      rules_matched_count |-> Len(matched_rules),
      severity |-> IF matched_rules # <<>> THEN MaxSeverity(matched_rules) ELSE "info",
      total_rules_checked |-> Len(rule_list),
      is_known_legitimate |-> is_legitimate ]

\* RuleEngine.analyze(url, features) for the rule list rule_list
RuleEngine_analyze(rule_list, url, features) ==
    LET is_legitimate == is_known_legitimate_domain(url, features)
        matched_rules == RunRules(rule_list, 1, is_legitimate, url, features)
    IN  RuleResult(matched_rules, rule_list, is_legitimate)

(***************************************************************************)
(* ml_detector.py: PhishingMLDetector                                      *)
(***************************************************************************)
ML_KNOWN_LEGITIMATE_DOMAINS ==
    { <<"google", "com">>, <<"www", "google", "com">>, <<"mail", "google", "com">>,
      <<"paypal", "com">>, <<"www", "paypal", "com">>, <<"amazon", "com">>,
      <<"microsoft", "com">>, <<"apple", "com">>, <<"github", "com">> }

\* settings.ML_THRESHOLD, in units of 1/1000000
ML_THRESHOLD == 500000

\* _is_known_legitimate(url)
is_known_legitimate(url) ==
    LET e == TldExtract(url)
        domain == e.domain \o e.suffix
        full_domain == e.subdomain \o domain
    IN  domain \in ML_KNOWN_LEGITIMATE_DOMAINS \/ full_domain \in ML_KNOWN_LEGITIMATE_DOMAINS

\* PhishingMLDetector.predict from the scaling step on; proba is
\* probabilities[1] of the loaded model for the URL, in units of 1/1000000
ml_predict(url, proba) ==
    LET is_known_legit == is_known_legitimate(url)
        phishing_probability ==
            IF is_known_legit THEN Min(proba \div 10, 150000) ELSE proba
    IN  [ is_phishing |-> phishing_probability >= ML_THRESHOLD,
          ml_score |-> Round4(phishing_probability),
          confidence |-> Round4(Max(proba, Micro - proba)),
          is_known_legitimate |-> is_known_legit ]

(***************************************************************************)
(* bert_detector.py: EnhancedCharacterModel                                *)
(***************************************************************************)
\* target_brands, the entries within reach of the labels of the model
target_brands == <<"google", "paypal">>

safe_domains ==
    { <<"google", "com">>, <<"www", "google", "com">>, <<"mail", "google", "com">>,
      <<"paypal", "com">>, <<"www", "paypal", "com">>, <<"amazon", "com">>,
      <<"microsoft", "com">>, <<"apple", "com">>, <<"github", "com">> }

\* _extract_domain(url): the full host
extract_domain(url) ==
    LET e == TldExtract(url) IN e.subdomain \o e.domain \o e.suffix

is_safe_domain(url) ==
    LET domain == extract_domain(url)
    IN  \/ domain \in safe_domains
        \/ (domain # <<>> /\ domain[1] = "www" /\ Tail(domain) \in safe_domains)

\* the characters of a name, labels joined by "."
RECURSIVE JoinChars(_)
JoinChars(name) ==
    IF name = <<>> THEN <<>>
    ELSE IF Len(name) = 1 THEN Chars(name[1])
    ELSE Chars(name[1]) \o <<".">> \o JoinChars(Tail(name))

\* char_substitutions of EnhancedCharacterModel
CharSubstitution(c) ==
    CASE c = "0" -> "o" [] c = "1" -> "l" [] c = "3" -> "e" [] c = "4" -> "a"
      [] c = "5" -> "s" [] c = "7" -> "t" [] c = "8" -> "b" [] c = "@" -> "a"
      [] c = "$" -> "s" [] c = "!" -> "i" [] OTHER -> c

NoBrand == "None"

\* the body of the loop of _detect_typosquatting for one brand; scores in
\* units of 1/1000000
TypoStep(best_match, main_domain, brand) ==
    LET b == Chars(brand)
        distance == levenshtein_distance(main_domain, b)
        max_len == Max(Len(main_domain), Len(b))
        normalized == [i \in 1 .. Len(main_domain) |-> CharSubstitution(main_domain[i])]
        norm_distance == levenshtein_distance(normalized, b)
        after_norm ==
            IF norm_distance = 0 /\ 950000 > best_match.score
            THEN [brand |-> brand, score |-> 950000]
            ELSE IF norm_distance = 1 /\ 880000 > best_match.score
            THEN [brand |-> brand, score |-> 880000]
            ELSE best_match
        similar == ((max_len - distance) * 850000) \div max_len
    IN  IF main_domain = b THEN best_match
        ELSE IF max_len = 0 THEN best_match
        ELSE IF distance <= 2 /\ Len(b) >= 4 /\ Len(main_domain) >= 4
        THEN LET score == IF distance = 1 THEN 900000 ELSE 850000
             IN  IF score > best_match.score
                 THEN [brand |-> brand, score |-> score] ELSE best_match
        ELSE IF 5 * (max_len - distance) >= 4 * max_len /\ similar > after_norm.score
        THEN [brand |-> brand, score |-> similar]
        ELSE after_norm

RECURSIVE TypoLoop(_, _, _)
TypoLoop(best_match, main_domain, i) ==
    IF i > Len(target_brands) THEN best_match
    ELSE TypoLoop(TypoStep(best_match, main_domain, target_brands[i]), main_domain, i + 1)

\* _detect_typosquatting(url)
detect_typosquatting(url) ==
    LET main_domain == JoinChars(TldExtract(url).domain)
    IN  IF main_domain = <<>> THEN [brand |-> NoBrand, score |-> 0]
        ELSE TypoLoop([brand |-> NoBrand, score |-> 0], main_domain, 1)

\* what requests.head(test_url, timeout=3, allow_redirects=False) can give:
\* an exception, a redirect whose Location names the brand's own domain, or
\* any other response
Responses == {"exception", "redirect_to_brand", "other"}

\* _check_redirect_to_legitimate(url, expected_brand), given the response
check_redirect_to_legitimate(response) == response = "redirect_to_brand"

\* entries of self.patterns that can match a URL of the model, weights in
\* 1/1000000.  Brand mimicking: a label that is a brand or its look-alike
\* matches unless it is followed by one of the exempt suffixes and the end of
\* the host; a label or a path segment that goes on after the look-alike
\* matches as it is.
BrandPatternLabels == {"paypal", "paypa1", "google"}

BrandPatternExempt(label) ==
    IF label \in {"paypal", "paypa1"} THEN {"com", "me"} ELSE {"com"}

BrandPatternPrefixLabels == {"paypa1-secure"}

BrandPatternTails == {"/paypal/login.html", "/paypa1"}

BrandPatternHit(url) ==
    LET host == url.host
    IN  \/ \E i \in 1 .. Len(host) :
               /\ host[i] \in BrandPatternLabels
               /\ ~(/\ i = Len(host) - 1
                    /\ host[i + 1] \in BrandPatternExempt(host[i])
                    /\ url.port = "")
        \/ \E i \in 1 .. Len(host) : host[i] \in BrandPatternPrefixLabels
        \/ url.tail \in BrandPatternTails

\* '-login\b', '-secure\b': 'login in subdomain', 'secure in subdomain'
HyphenKeywordWeight(label) ==
    IF label \in {"secure-login", "paypa1-secure"} THEN 600000 ELSE 0

RECURSIVE HyphenKeywordScore(_)
HyphenKeywordScore(host) ==
    IF host = <<>> THEN 0
    ELSE HyphenKeywordWeight(host[1]) + HyphenKeywordScore(Tail(host))

\* 'very long random string' and 'base64 in url'
TailPatternWeight(tail) == IF tail = HighEntropyTail THEN 500000 + 400000 ELSE 0

\* 'unusual port number': a colon, four or five digits, then "/" or "?"
PortPatternWeight(port) == IF port = "99999" THEN 400000 ELSE 0

PatternScore(url) ==
    (IF BrandPatternHit(url) THEN 850000 ELSE 0)
    + HyphenKeywordScore(url.host)
    + (IF IsIPv4(url.host) THEN 650000 ELSE 0)
    + TailPatternWeight(url.tail)
    + PortPatternWeight(url.port)

\* 'no https' heuristic: sensitive_keywords of EnhancedCharacterModel.predict
char_sensitive_keywords == {"login", "signin", "account", "bank", "secure", "verify"}

char_suspicious_keywords ==
    {"verify", "update", "confirm", "suspended", "locked", "unusual", "activity",
     "secure", "authenticate", "validate"}

\* brands written right after a "/" of the tail
TailSlashBrands(tail) == IF tail = "/paypal/login.html" THEN {"paypal"} ELSE {}

\* 'brand misused in url': a brand followed by "." or preceded by "/" in the
\* URL while brand.com / brand.org is not part of the host
BrandMisused(url) ==
    LET host == url.host
    IN  \E b \in {target_brands[k] : k \in 1 .. Len(target_brands)} :
            /\ \/ \E i \in 1 .. Len(host) : b \in LabelBrands(host[i])
               \/ b \in TailSlashBrands(url.tail)
            /\ ~(\E i \in 1 .. Len(host) - 1 :
                    b \in LabelBrands(host[i]) /\ host[i + 1] \in {"com", "org"})

\* EnhancedCharacterModel.predict(url): score in 1/10000 and the requests sent
char_predict(url, response) ==
    LET typo == detect_typosquatting(url)
        probes == typo.brand # NoBrand /\ typo.score > 500000
        kw == find_suspicious_keywords(url)
        keyword_count == Cardinality(kw \cap char_suspicious_keywords)
        score ==
            (IF probes THEN typo.score ELSE 0)
            + PatternScore(url)
            + (IF UrlLength(url) > 150 THEN 200000
               ELSE IF UrlLength(url) > 100 THEN 100000 ELSE 0)
            + (IF url.https THEN 0
               ELSE IF kw \cap char_sensitive_keywords # {} THEN 350000 ELSE 100000)
            + (IF BrandMisused(url) THEN 400000 ELSE 0)
            + (IF keyword_count >= 3 THEN 500000
               ELSE IF keyword_count >= 2 THEN 300000 ELSE 0)
    IN  IF is_safe_domain(url)
        THEN [score |-> 200, is_phishing |-> FALSE, io |-> {}]
        ELSE IF probes /\ check_redirect_to_legitimate(response)
        THEN [score |-> 500, is_phishing |-> FALSE, io |-> {"network"}]
        ELSE [score |-> Round4(Min(score, Micro)),
              is_phishing |-> Min(score, Micro) >= 500000,
              io |-> IF probes THEN {"network"} ELSE {}]

(***************************************************************************)
(* bert_detector.py: BERTPhishingDetector                                  *)
(***************************************************************************)
\* the states _load_bert_model and __init__ can leave the detector in
BertLoaderStates ==
    { [model_type |-> "enhanced_character_level", has_model |-> FALSE, is_loaded |-> FALSE],
      [model_type |-> "enhanced_character_level", has_model |-> TRUE, is_loaded |-> FALSE],
      [model_type |-> "bert_pretrained", has_model |-> FALSE, is_loaded |-> TRUE],
      [model_type |-> "bert_finetuned", has_model |-> TRUE, is_loaded |-> TRUE] }

BertError == -1

\* _tokenize_url(url): the word-like tokens of the host labels and of the tail
LabelTokens(label) ==
    CASE label = "paypa1"        -> <<"paypa", "1">>
      [] label = "paypa1-secure" -> <<"paypa", "1", "secure">>
      [] label = "secure-login"  -> <<"secure", "login">>
      [] OTHER                   -> <<label>>

TailTokens(tail) ==
    CASE tail = "/"                  -> <<>>
      [] tail = "/login"             -> <<"login">>
      [] tail = "/a@b"               -> <<"a", "b">>
      [] tail = "/signin"            -> <<"signin">>
      [] tail = "/paypal/login.html" -> <<"paypal", "login", "html">>
      [] tail = "/paypa1"            -> <<"paypa", "1">>
      [] tail = HighEntropyTail      ->
             <<"abcdefghijklmnopqrstuvwxy", "zabcdefghijklmnopqrstuvwxyz", "0123456789">>

\* the port stays with the last label of the host and is a token of its own
PortTokens(port) == IF port = "" THEN <<>> ELSE <<port>>

RECURSIVE HostTokens(_)
HostTokens(host) ==
    IF host = <<>> THEN <<>> ELSE LabelTokens(host[1]) \o HostTokens(Tail(host))

tokenize_url(url) == HostTokens(url.host) \o PortTokens(url.port) \o TailTokens(url.tail)

\* token within edit distance 1..2 of a brand of at least four characters
TokenSuspicious(token) ==
    \E k \in 1 .. Len(target_brands) :
        LET distance == levenshtein_distance(Chars(token), Chars(target_brands[k]))
        IN  1 <= distance /\ distance <= 2 /\ Len(Chars(target_brands[k])) >= 4

\* token_score of BERTPhishingDetector.predict, in 1/1000000
TokenScore(url) ==
    LET tokens == tokenize_url(url)
    IN  400000 * Cardinality({ i \in 1 .. Len(tokens) : TokenSuspicious(tokens[i]) })

TokenScoreTable == [u \in AllUrls |-> TokenScore(u)] @@ <<>>

\* BERTPhishingDetector.predict(url) in the loader state bert; char_result is
\* char_model.predict(url), bert_proba the probability of the fine-tuned
\* sequence classifier in 1/1000000
bert_predict(bert, url, bert_proba, char_result) ==
    LET token_score == TokenScoreTable[url]
        final_score == Min(char_result.score * 100 + (token_score * 3) \div 10, Micro)
        \* _get_bert_embedding_score: the classifier's probability, or the
        \* character-level score when the classifier raises
        raw_bert == IF bert_proba = BertError THEN char_result.score * 100 ELSE bert_proba
        combined_score == (raw_bert * 6) \div 10 + char_result.score * 40
    IN  IF bert.model_type = "bert_finetuned" /\ bert.has_model
        THEN [ bert_score |-> Round4(raw_bert),
               char_score |-> char_result.score,
               combined_score |-> Round4(combined_score),
               is_phishing |-> combined_score >= 500000,
               model_type |-> "bert_hybrid",
               io |-> char_result.io ]
        ELSE [ bert_score |-> Round4(final_score),
               char_score |-> char_result.score,
               combined_score |-> Round4(final_score),
               is_phishing |-> final_score >= 500000,
               model_type |-> bert.model_type,
               io |-> char_result.io ]

(***************************************************************************)
(* phishing_detector.py: PhishingDetector                                  *)
(***************************************************************************)
\* self.bert_weight, self.ml_weight, self.rule_weight in hundredths
bert_weight == 35

ml_weight == 25

rule_weight == 40

\* the parameters of _create_result, and those without a default
CreateResultParams ==
    {"url", "domain", "is_phishing", "confidence_score", "ml_score", "rule_score",
     "severity", "status", "features", "matched_rules", "verdict", "reason",
     "ml_details", "rule_details"}

CreateResultRequired == CreateResultParams \ {"ml_details", "rule_details"}

\* binding keyword arguments to the parameters raises TypeError on an
\* unexpected keyword or a missing required parameter
CallRaisesTypeError(kwargs) ==
    DOMAIN kwargs \ CreateResultParams # {} \/ CreateResultRequired \ DOMAIN kwargs # {}

None == "None"

NoFeatures == [k \in {} |-> 0]

\* _create_result(**kwargs): confidence_score is given in 1/1000000, the
\* other scores in 1/10000; scanned_at is datetime.utcnow()
create_result(kwargs, utcnow) ==
    [ url |-> kwargs.url, domain |-> kwargs.domain, is_phishing |-> kwargs.is_phishing,
      confidence_score |-> Round4(kwargs.confidence_score),
      ml_score |-> kwargs.ml_score, rule_score |-> kwargs.rule_score,
      severity |-> kwargs.severity, status |-> kwargs.status,
      features |-> kwargs.features, matched_rules |-> kwargs.matched_rules,
      verdict |-> kwargs.verdict, reason |-> kwargs.reason,
      ml_details |-> IF "ml_details" \in DOMAIN kwargs THEN kwargs.ml_details ELSE None,
      rule_details |-> IF "rule_details" \in DOMAIN kwargs THEN kwargs.rule_details ELSE None,
      scanned_at |-> utcnow ]

NoResult == [verdict |-> None]

\* lines 115-130 of analyze_url: the combined score after the override on
\* the severities of the matched rules, in 1/1000000
override_score_one_tier(weighted, critical_rules_matched, high_severity_rules) ==
    IF critical_rules_matched > 0 THEN Max(weighted, 850000)
    ELSE IF high_severity_rules > 0 THEN Max(weighted, 550000)
    ELSE weighted

override_score_critical_only(weighted, critical_rules_matched, high_severity_rules) ==
    IF critical_rules_matched > 0 THEN Max(weighted, 850000)
    ELSE weighted

\* the override with the floor of a single high rule below the threshold
override_score_low_floor(weighted, critical_rules_matched, high_severity_rules) ==
    IF critical_rules_matched > 0 THEN Max(weighted, 850000)
    ELSE IF high_severity_rules >= 2 THEN Max(weighted, 650000)
    ELSE IF high_severity_rules > 0 THEN Max(weighted, 400000)
    ELSE weighted

\* the override with the floors added to the weighted score
override_score_added(weighted, critical_rules_matched, high_severity_rules) ==
    IF critical_rules_matched > 0 THEN weighted + 850000
    ELSE IF high_severity_rules >= 2 THEN weighted + 650000
    ELSE IF high_severity_rules > 0 THEN weighted + 550000
    ELSE weighted

override_score(weighted, critical_rules_matched, high_severity_rules) ==
    IF critical_rules_matched > 0 THEN Max(weighted, 850000)
    ELSE IF high_severity_rules >= 2 THEN Max(weighted, 650000)
    ELSE IF high_severity_rules > 0 THEN Max(weighted, 550000)
    ELSE weighted

\* lines 132-142 of analyze_url: the severity of a combined score
severity_tier_late_high(combined_score) ==
    IF combined_score >= 800000 THEN "critical"
    ELSE IF combined_score >= 700000 THEN "high"
    ELSE IF combined_score >= 400000 THEN "medium"
    ELSE IF combined_score >= 200000 THEN "low"
    ELSE "info"

\* the severity with the low tier from 0.1 instead of 0.2
severity_tier_early_low(combined_score) ==
    IF combined_score >= 800000 THEN "critical"
    ELSE IF combined_score >= 600000 THEN "high"
    ELSE IF combined_score >= 400000 THEN "medium"
    ELSE IF combined_score >= 100000 THEN "low"
    ELSE "info"

severity_tier(combined_score) ==
    IF combined_score >= 800000 THEN "critical"
    ELSE IF combined_score >= 600000 THEN "high"
    ELSE IF combined_score >= 400000 THEN "medium"
    ELSE IF combined_score >= 200000 THEN "low"
    ELSE "info"

\* lines 95-156 of analyze_url: the hybrid score, the override policy, the
\* severity tier, the status and the verdict
Aggregate(bert_result, ml_result, rule_result) ==
    LET weighted ==
            bert_result.combined_score * bert_weight + ml_result.ml_score * ml_weight
            + rule_result.rule_score * rule_weight
        critical_rules_matched == CountSeverity(rule_result.matched_rules, "critical")
        high_severity_rules == CountSeverity(rule_result.matched_rules, "high")
        combined_score ==
            override_score(weighted, critical_rules_matched, high_severity_rules)
        is_phishing ==
            IF critical_rules_matched > 0 THEN TRUE
            ELSE IF high_severity_rules >= 2 THEN TRUE
            ELSE combined_score >= 450000
        severity == severity_tier(combined_score)
        verdict ==
            IF is_phishing THEN "malicious"
            ELSE IF combined_score < 200000 THEN "safe" ELSE "suspicious"
    IN  [ weighted |-> weighted,
          combined_score |-> combined_score,
          is_phishing |-> is_phishing,
          severity |-> severity,
          status |-> IF is_phishing THEN "blocked" ELSE "active",
          verdict |-> verdict,
          reason |->
              IF is_phishing
              THEN IF combined_score >= 800000
                   THEN "High confidence phishing detection"
                   ELSE "Potential phishing detected"
              ELSE IF verdict = "safe" THEN "No significant threats detected"
              ELSE "Some suspicious indicators found" ]

\* the keyword arguments of the three calls of _create_result in analyze_url
WhitelistKwargsSuspicious(url, domain) ==
    [ url |-> url, domain |-> domain, is_phishing |-> FALSE, confidence_score |-> 0,
      ml_score |-> 0, rule_score |-> 0, severity |-> "low", status |-> "active",
      features |-> NoFeatures, matched_rules |-> <<>>, verdict |-> "suspicious",
      reason |-> "Domain is whitelisted" ]

WhitelistKwargs(url, domain) ==
    [ url |-> url, domain |-> domain, is_phishing |-> FALSE, confidence_score |-> 0,
      ml_score |-> 0, rule_score |-> 0, severity |-> "info", status |-> "active",
      features |-> NoFeatures, matched_rules |-> <<>>, verdict |-> "safe",
      reason |-> "Domain is whitelisted" ]

BlacklistKwargs(url, domain) ==
    [ url |-> url, domain |-> domain, is_phishing |-> TRUE, confidence_score |-> Micro,
      ml_score |-> Unit, rule_score |-> Unit, bert_score |-> Unit,
      severity |-> "critical", status |-> "blocked", features |-> NoFeatures,
      matched_rules |-> <<[name |-> "Blacklist Match", severity |-> "critical"]>>,
      verdict |-> "malicious",
      reason |-> "Domain found in threat intelligence blacklist" ]

ScoredKwargs(url, domain, agg, features, ml_result, rule_result) ==
    [ url |-> url, domain |-> domain, is_phishing |-> agg.is_phishing,
      confidence_score |-> agg.combined_score, ml_score |-> ml_result.ml_score,
      rule_score |-> rule_result.rule_score, severity |-> agg.severity,
      status |-> agg.status, features |-> features,
      matched_rules |-> rule_result.matched_rules, verdict |-> agg.verdict,
      reason |-> agg.reason, ml_details |-> ml_result, rule_details |-> rule_result ]

\* the record of one call of analyze_url: what it was given, which path it
\* took, whether it returned or raised, the result, the scorers it ran and
\* the input/output it performed
CallRecord(url, domain, intel, path, kwargs, utcnow, ran, io, proba, bert_proba, agg) ==
    [ url |-> url, domain |-> domain, intel |-> intel, path |-> path,
      outcome |-> IF CallRaisesTypeError(kwargs) THEN "raised" ELSE "returned",
      result |-> IF CallRaisesTypeError(kwargs) THEN NoResult
                 ELSE create_result(kwargs, utcnow),
      ran |-> ran, io |-> io, proba |-> proba, bert_proba |-> bert_proba,
      weighted |-> agg.weighted, combined_score |-> agg.combined_score ]

NoAggregate == [weighted |-> 0, combined_score |-> 0]

Scorers == {"url_analyzer", "ml_detector", "bert_detector", "rule_engine"}

\* the URL-only parts of a scan, evaluated once for every URL of the model
FeatureTable == [u \in AllUrls |-> extract_features(u)] @@ <<>>

RuleTable == [u \in AllUrls |-> RuleEngine_analyze(rules, u, FeatureTable[u])] @@ <<>>

CharTable == [u \in AllUrls |-> ([r \in Responses |-> char_predict(u, r)] @@ <<>>)] @@ <<>>

\* analyze_url(url) with db = None, in the store (bl, wl), the loader state
\* bert and a loaded statistical model; proba and bert_proba are what the two
\* models return for the URL, response what the network answers
analyze_url(url, bl, wl, bert, proba, bert_proba, response, utcnow) ==
    LET domain == RegisteredDomain(url)
        intel_result == check_domain(Str(domain), bl, wl)
        features == FeatureTable[url]
        ml_result == ml_predict(url, proba)
        bert_result == bert_predict(bert, url, bert_proba, CharTable[url][response])
        rule_result == RuleTable[url]
        agg == Aggregate(bert_result, ml_result, rule_result)
    IN  IF intel_result.is_whitelisted
        THEN CallRecord(url, domain, intel_result, "whitelist", WhitelistKwargs(url, domain),
                        utcnow, {}, {}, None, None, NoAggregate)
        ELSE IF intel_result.is_blacklisted
        THEN CallRecord(url, domain, intel_result, "blacklist", BlacklistKwargs(url, domain),
                        utcnow, {}, {}, None, None, NoAggregate)
        ELSE CallRecord(url, domain, intel_result, "scored",
                        ScoredKwargs(url, domain, agg, features, ml_result, rule_result),
                        utcnow, Scorers, bert_result.io, proba, bert_proba, agg)

(***************************************************************************)
(* State.                                                                  *)
(***************************************************************************)
VARIABLES
    blacklist,      \* threat_intel.blacklist
    whitelist,      \* threat_intel.whitelist
    bert,           \* loader state of bert_detector
    now,            \* the clock read by datetime.utcnow()
    call,           \* record of the latest call of analyze_url since the store was last written
    procs,          \* the operation, position and locals of every thread
    ml,             \* ml_detector: its scaler, its model and is_loaded
    last_update     \* threat_intel.last_update

vars == <<blacklist, whitelist, bert, now, call, procs, ml, last_update>>

\* self.last_update = None
NeverUpdated == -1

\* strings handed to the store by its callers
Indicators ==
    { Str(<<"evil", "com">>), Str(<<"google", "com">>),
      [name |-> <<"evil", "com">>, upper |-> TRUE, pad |-> TRUE] }

\* probabilities the statistical model and the sequence classifier return
Probas == {20000, 930000}

BertProbas == {730000, BertError}

\* no thread besides the caller of analyze_url
NoProcs == <<>>

\* an object of scikit-learn: the instance and whether it has been fitted
Fitted(version) == [version |-> version, fitted |-> TRUE]

Unfitted(version) == [version |-> version, fitted |-> FALSE]

\* ml_detector after construction: _load_model or _initialize_default_model
\* has installed a fitted scaler and a fitted model
LoadedModel == [scaler |-> Fitted(1), model |-> Fitted(1), is_loaded |-> TRUE]

NoCall ==
    [ url |-> None, domain |-> None, intel |-> None, path |-> None, outcome |-> None,
      result |-> NoResult, ran |-> {}, io |-> {}, proba |-> None, bert_proba |-> None,
      weighted |-> 0, combined_score |-> 0 ]

Init ==
    /\ last_update = NeverUpdated
    /\ blacklist = {}
    /\ whitelist = default_whitelist
    /\ bert \in {b \in BertLoaderStates : b.has_model = b.is_loaded}
    /\ now = 0
    /\ call = NoCall
    /\ procs = NoProcs
    /\ ml = LoadedModel

add_to_blacklist(domain) ==
    /\ blacklist' = blacklist \cup {Strip(Lower(domain))}
    /\ call' = NoCall
    /\ UNCHANGED <<last_update, whitelist, bert, now, procs, ml>>

add_to_whitelist(domain) ==
    /\ whitelist' = whitelist \cup {Strip(Lower(domain))}
    /\ call' = NoCall
    /\ UNCHANGED <<last_update, blacklist, bert, now, procs, ml>>

remove_from_blacklist(domain) ==
    /\ blacklist' = blacklist \ {Strip(Lower(domain))}
    /\ call' = NoCall
    /\ UNCHANGED <<last_update, whitelist, bert, now, procs, ml>>

remove_from_whitelist(domain) ==
    /\ whitelist' = whitelist \ {Strip(Lower(domain))}
    /\ call' = NoCall
    /\ UNCHANGED <<last_update, blacklist, bert, now, procs, ml>>

\* the clock advances
Tick ==
    /\ now < MaxClock
    /\ now' = now + 1
    /\ UNCHANGED <<last_update, blacklist, whitelist, bert, call, procs, ml>>

Hybrid(b) == b.model_type = "bert_finetuned" /\ b.has_model

AnalyzeUrl(url, proba, bert_proba, response) ==
    /\ call' = analyze_url(url, blacklist, whitelist, bert, proba, bert_proba, response, now)
    /\ UNCHANGED <<last_update, blacklist, whitelist, bert, now, procs, ml>>

Next ==
    \/ \E d \in Indicators : add_to_blacklist(d)
    \/ \E d \in Indicators : add_to_whitelist(d)
    \/ \E d \in Indicators : remove_from_blacklist(d)
    \/ \E d \in Indicators : remove_from_whitelist(d)
    \/ Tick
    \/ \E url \in Urls, proba \in Probas, response \in Responses :
          \E bert_proba \in (IF Hybrid(bert) THEN BertProbas ELSE {None}) :
              AnalyzeUrl(url, proba, bert_proba, response)

Spec == Init /\ [][Next]_vars

(***************************************************************************)
(* The threat-intel store under concurrent callers.  Every thread runs one *)
(* operation of ThreatIntelligenceService; a step is one access of a set   *)
(* (add, discard, update or a membership scan), the await of               *)
(* update_blacklist and the rows of sync_from_database separate the steps  *)
(* of one operation.                                                       *)
(***************************************************************************)
NumProcs == 3

StoreProcs == 1 .. NumProcs

\* raw indicators of the administrative operations and of the database rows
StoreIndicators ==
    { Str(<<"evil", "com">>), Str(<<"com">>),
      [name |-> <<"evil", "com">>, upper |-> TRUE, pad |-> TRUE] }

\* what the GET of settings.PHISHING_BLACKLIST_URL yields
FeedResponses ==
    { [kind |-> "exception", status_code |-> 0, lines |-> {}],
      [kind |-> "response", status_code |-> 500, lines |-> {}],
      [kind |-> "response", status_code |-> 200,
       lines |-> { [text |-> [name |-> <<"evil", "com">>, upper |-> TRUE, pad |-> TRUE],
                    comment |-> FALSE],
                   [text |-> Str(<<"paypa1", "com">>), comment |-> TRUE],
                   [text |-> Str(<<>>), comment |-> FALSE] }] }

\* what the query of sync_from_database yields: the active rows
DbTables ==
    { <<>>,
      << [threat_type |-> "phishing",
          indicator |-> [name |-> <<"evil", "com">>, upper |-> TRUE, pad |-> FALSE]],
         [threat_type |-> "whitelist", indicator |-> Str(<<"evil", "com">>)] >> }

\* domains whose classification is read
Probes == { Str(<<"evil", "com">>), Str(<<"paypal", "evil", "com">>), Str(<<"com">>) }

Idle == [op |-> None, arg |-> None, pc |-> "idle", i |-> 0, result |-> None]

Done(op, arg, result) == [op |-> op, arg |-> arg, pc |-> "done", i |-> 0, result |-> result]

InitStore ==
    /\ last_update = NeverUpdated
    /\ blacklist = {}
    /\ whitelist = default_whitelist
    /\ bert = CHOOSE b \in BertLoaderStates : ~b.has_model /\ b.is_loaded
    /\ now = 0
    /\ call = NoCall
    /\ procs = [p \in StoreProcs |-> Idle]
    /\ ml = LoadedModel

Call_add_to_blacklist(p, domain) ==
    /\ procs[p].pc = "idle"
    /\ blacklist' = blacklist \cup {Strip(Lower(domain))}
    /\ procs' = [procs EXCEPT ![p] = Done("add_to_blacklist", domain, None)]
    /\ UNCHANGED <<last_update, whitelist, bert, now, call, ml>>

Call_add_to_whitelist(p, domain) ==
    /\ procs[p].pc = "idle"
    /\ whitelist' = whitelist \cup {Strip(Lower(domain))}
    /\ procs' = [procs EXCEPT ![p] = Done("add_to_whitelist", domain, None)]
    /\ UNCHANGED <<last_update, blacklist, bert, now, call, ml>>

Call_remove_from_blacklist(p, domain) ==
    /\ procs[p].pc = "idle"
    /\ blacklist' = blacklist \ {Strip(Lower(domain))}
    /\ procs' = [procs EXCEPT ![p] = Done("remove_from_blacklist", domain, None)]
    /\ UNCHANGED <<last_update, whitelist, bert, now, call, ml>>

Call_remove_from_whitelist(p, domain) ==
    /\ procs[p].pc = "idle"
    /\ whitelist' = whitelist \ {Strip(Lower(domain))}
    /\ procs' = [procs EXCEPT ![p] = Done("remove_from_whitelist", domain, None)]
    /\ UNCHANGED <<last_update, blacklist, bert, now, call, ml>>

\* update_blacklist up to the await of client.get
update_blacklist_request(p) ==
    /\ procs[p].pc = "idle"
    /\ procs' = [procs EXCEPT ![p] = [op |-> "update_blacklist", arg |-> None,
                                      pc |-> "await", i |-> 0, result |-> None]]
    /\ UNCHANGED <<last_update, blacklist, whitelist, bert, now, call, ml>>

\* update_blacklist from the answer of client.get to its return, without the
\* test of the status: the feed is merged and the time is recorded always
update_blacklist_unconditional(response, bl, updated, clock) ==
    [ blacklist |-> merge_feed(bl, parse_feed(response.lines)),
      last_update |-> clock,
      success |-> response.kind = "response" /\ response.status_code = 200 ]

\* update_blacklist from the answer of client.get to its return: the sets
\* and last_update it leaves, and the success of the record it returns
update_blacklist(response, bl, updated, clock) ==
    IF response.kind = "response" /\ response.status_code = 200
    THEN [ blacklist |-> merge_feed(bl, parse_feed(response.lines)),
           last_update |-> clock,
           success |-> TRUE ]
    ELSE [ blacklist |-> bl, last_update |-> updated, success |-> FALSE ]

update_blacklist_response(p, response) ==
    /\ procs[p].pc = "await"
    /\ LET r == update_blacklist(response, blacklist, last_update, now)
       IN  /\ blacklist' = r.blacklist
           /\ last_update' = r.last_update
           /\ procs' = [procs EXCEPT ![p] = Done("update_blacklist", response, r.success)]
    /\ UNCHANGED <<whitelist, bert, now, call, ml>>

\* sync_from_database up to the end of the query
sync_from_database_query(p, threats) ==
    /\ procs[p].pc = "idle"
    /\ procs' = [procs EXCEPT ![p] =
                    IF threats = <<>> THEN Done("sync_from_database", threats, TRUE)
                    ELSE [op |-> "sync_from_database", arg |-> threats, pc |-> "for",
                          i |-> 1, result |-> None]]
    /\ UNCHANGED <<last_update, blacklist, whitelist, bert, now, call, ml>>

\* one turn of the loop of sync_from_database
sync_from_database_row(p) ==
    /\ procs[p].pc = "for"
    /\ LET threats == procs[p].arg
           threat == threats[procs[p].i]
       IN  /\ IF threat.threat_type = "whitelist"
              THEN /\ whitelist' = whitelist \cup {Lower(threat.indicator)}
                   /\ blacklist' = blacklist
              ELSE /\ blacklist' = blacklist \cup {Lower(threat.indicator)}
                   /\ whitelist' = whitelist
           /\ procs' = [procs EXCEPT ![p] =
                           IF procs[p].i = Len(threats)
                           THEN Done("sync_from_database", threats, TRUE)
                           ELSE [@ EXCEPT !.i = @ + 1]]
    /\ UNCHANGED <<last_update, bert, now, call, ml>>

\* check_domain up to the end of is_whitelisted
check_domain_whitelist(p, domain) ==
    /\ procs[p].pc = "idle"
    /\ procs' = [procs EXCEPT ![p] =
                    IF is_whitelisted(LowerStrip(domain), whitelist)
                    THEN Done("check_domain", domain, check_domain(domain, {}, whitelist))
                    ELSE [op |-> "check_domain", arg |-> domain, pc |-> "elif",
                          i |-> 0, result |-> None]]
    /\ UNCHANGED <<last_update, blacklist, whitelist, bert, now, call, ml>>

\* check_domain from the elif to its return
check_domain_blacklist(p) ==
    /\ procs[p].pc = "elif"
    /\ procs' = [procs EXCEPT ![p] =
                    Done("check_domain", procs[p].arg, check_domain(procs[p].arg, blacklist, {}))]
    /\ UNCHANGED <<last_update, blacklist, whitelist, bert, now, call, ml>>

NextStore ==
    \/ \E p \in StoreProcs, d \in StoreIndicators : Call_add_to_blacklist(p, d)
    \/ \E p \in StoreProcs, d \in StoreIndicators : Call_add_to_whitelist(p, d)
    \/ \E p \in StoreProcs, d \in StoreIndicators : Call_remove_from_blacklist(p, d)
    \/ \E p \in StoreProcs, d \in StoreIndicators : Call_remove_from_whitelist(p, d)
    \/ \E p \in StoreProcs : update_blacklist_request(p)
    \/ \E p \in StoreProcs, response \in FeedResponses : update_blacklist_response(p, response)
    \/ \E p \in StoreProcs, threats \in DbTables : sync_from_database_query(p, threats)
    \/ \E p \in StoreProcs : sync_from_database_row(p)
    \/ \E p \in StoreProcs, d \in Probes : check_domain_whitelist(p, d)
    \/ \E p \in StoreProcs : check_domain_blacklist(p)

SpecStore == InitStore /\ [][NextStore]_vars

(***************************************************************************)
(* ml_detector.py: a thread that replaces the model (train or              *)
(* _initialize_default_model) beside a thread that runs predict.  A step   *)
(* is one assignment to, one fit of or one use of self.scaler/self.model.  *)
(***************************************************************************)
MaxVersion == 3

NoObject == [version |-> 0, fitted |-> FALSE]

Replacements == {"train", "_initialize_default_model"}

InitSwap ==
    /\ last_update = NeverUpdated
    /\ blacklist = {}
    /\ whitelist = default_whitelist
    /\ bert = CHOOSE b \in BertLoaderStates : ~b.has_model /\ b.is_loaded
    /\ now = 0
    /\ call = NoCall
    /\ ml = LoadedModel
    /\ procs = [ trainer |-> [op |-> None, pc |-> "idle"],
                 predictor |-> [pc |-> "idle", scaler |-> NoObject, model |-> NoObject,
                                proba_model |-> NoObject, outcome |-> None] ]

\* self.scaler = StandardScaler()
replace_scaler_new(op) ==
    /\ procs.trainer.pc = "idle"
    /\ ml.scaler.version < MaxVersion
    /\ ml' = [ml EXCEPT !.scaler = Unfitted(ml.scaler.version + 1)]
    /\ procs' = [procs EXCEPT !.trainer = [op |-> op, pc |-> "fit_transform"]]
    /\ UNCHANGED <<last_update, blacklist, whitelist, bert, now, call>>

\* self.scaler.fit_transform(X)
replace_scaler_fit ==
    /\ procs.trainer.pc = "fit_transform"
    /\ ml' = [ml EXCEPT !.scaler.fitted = TRUE]
    /\ procs' = [procs EXCEPT !.trainer.pc = "model"]
    /\ UNCHANGED <<last_update, blacklist, whitelist, bert, now, call>>

\* self.model = RandomForestClassifier(...)
replace_model_new ==
    /\ procs.trainer.pc = "model"
    /\ ml' = [ml EXCEPT !.model = Unfitted(ml.scaler.version)]
    /\ procs' = [procs EXCEPT !.trainer.pc = "fit"]
    /\ UNCHANGED <<last_update, blacklist, whitelist, bert, now, call>>

\* self.model.fit(X_scaled, y)
replace_model_fit ==
    /\ procs.trainer.pc = "fit"
    /\ ml' = [ml EXCEPT !.model.fitted = TRUE]
    /\ procs' = [procs EXCEPT !.trainer.pc = "save_model"]
    /\ UNCHANGED <<last_update, blacklist, whitelist, bert, now, call>>

\* self.save_model() and self.is_loaded = True, in the order of the operation
replace_finish ==
    /\ procs.trainer.pc = "save_model"
    /\ ml' = [ml EXCEPT !.is_loaded = TRUE]
    /\ procs' = [procs EXCEPT !.trainer.pc = "idle"]
    /\ UNCHANGED <<last_update, blacklist, whitelist, bert, now, call>>

\* predict, lines 408-413: the model is loaded, the features are extracted
predict_enter ==
    /\ procs.predictor.pc = "idle"
    /\ ml.is_loaded /\ ml.model # NoObject
    /\ procs' = [procs EXCEPT !.predictor =
                    [pc |-> "transform", scaler |-> NoObject, model |-> NoObject,
                     proba_model |-> NoObject, outcome |-> None]]
    /\ UNCHANGED <<last_update, blacklist, whitelist, bert, now, call, ml>>

\* X_scaled = self.scaler.transform(X); an unfitted scaler raises
predict_transform ==
    /\ procs.predictor.pc = "transform"
    /\ procs' = [procs EXCEPT !.predictor.scaler = ml.scaler,
                              !.predictor.pc = IF ml.scaler.fitted THEN "predict" ELSE "done",
                              !.predictor.outcome = IF ml.scaler.fitted THEN None ELSE "raised"]
    /\ UNCHANGED <<last_update, blacklist, whitelist, bert, now, call, ml>>

\* prediction = self.model.predict(X_scaled)[0]; an unfitted model raises
predict_predict ==
    /\ procs.predictor.pc = "predict"
    /\ procs' = [procs EXCEPT !.predictor.model = ml.model,
                              !.predictor.pc = IF ml.model.fitted THEN "predict_proba" ELSE "done",
                              !.predictor.outcome = IF ml.model.fitted THEN None ELSE "raised"]
    /\ UNCHANGED <<last_update, blacklist, whitelist, bert, now, call, ml>>

\* probabilities = self.model.predict_proba(X_scaled)[0], and the return
predict_predict_proba ==
    /\ procs.predictor.pc = "predict_proba"
    /\ procs' = [procs EXCEPT !.predictor.proba_model = ml.model,
                              !.predictor.pc = "done",
                              !.predictor.outcome = IF ml.model.fitted THEN "returned" ELSE "raised"]
    /\ UNCHANGED <<last_update, blacklist, whitelist, bert, now, call, ml>>

\* the thread is free for its next call of predict
predict_next ==
    /\ procs.predictor.pc = "done"
    /\ procs' = [procs EXCEPT !.predictor.pc = "idle"]
    /\ UNCHANGED <<last_update, blacklist, whitelist, bert, now, call, ml>>

NextSwap ==
    \/ \E op \in Replacements : replace_scaler_new(op)
    \/ replace_scaler_fit
    \/ replace_model_new
    \/ replace_model_fit
    \/ replace_finish
    \/ predict_enter
    \/ predict_transform
    \/ predict_predict
    \/ predict_predict_proba
    \/ predict_next

SpecSwap == InitSwap /\ [][NextSwap]_vars

(***************************************************************************)
(* Properties of analyze_url.                                              *)
(***************************************************************************)

Called == call.outcome # None

\* the store reports the registrable domain of the latest call
Gate == check_domain(Str(call.domain), blacklist, whitelist)

\* C1: a URL whose registrable domain the store reports as blacklisted and
\* not whitelisted gets a result with verdict malicious, severity critical,
\* confidence score 1.0 and status blocked, and no scorer is run
C1BlacklistPrecedence ==
    (Called /\ Gate.is_blacklisted /\ ~Gate.is_whitelisted) =>
        /\ call.outcome = "returned"
        /\ call.result.verdict = "malicious"
        /\ call.result.severity = "critical"
        /\ call.result.confidence_score = Unit
        /\ call.result.status = "blocked"
        /\ call.ran = {}

\* C2: a URL whose registrable domain the store reports as whitelisted, also
\* when it is blacklisted as well, gets verdict safe, confidence score 0.0,
\* severity info, status active, no matched rule and no feature, and no
\* scorer is run
C2WhitelistPrecedence ==
    (Called /\ is_whitelisted(Str(call.domain), whitelist)) =>
        /\ call.outcome = "returned"
        /\ call.result.verdict = "safe"
        /\ call.result.confidence_score = 0
        /\ call.result.severity = "info"
        /\ call.result.status = "active"
        /\ call.result.matched_rules = <<>>
        /\ call.result.features = NoFeatures
        /\ call.ran = {}

\* a call on a domain that is on both lists
C2Witness ==
    /\ call.outcome = "returned"
    /\ is_whitelisted(Str(call.domain), whitelist)
    /\ is_blacklisted(Str(call.domain), blacklist)

\* C3: in every state of the store analyze_url returns a result record and
\* never raises
C3Totality == Called => (call.outcome = "returned" /\ call.result # NoResult)

\* C4: two calls on the same URL with the same model outputs and the same
\* store return results that are equal in every field
C4Determinism ==
    [][ ( /\ call.outcome = "returned"
          /\ call'.outcome = "returned"
          /\ call'.url = call.url
          /\ call'.proba = call.proba
          /\ call'.bert_proba = call.bert_proba
          /\ UNCHANGED <<last_update, blacklist, whitelist, bert>> )
        => call'.result = call.result ]_vars

\* C9: a call of analyze_url performs no network request and no file access
C9NoIO == Called => call.io = {}

\* C10: a critical matched rule gives a combined score of at least 0.85 and
\* is_phishing; else two or more high rules give at least 0.65 and
\* is_phishing; else one high rule gives at least 0.55 with is_phishing by
\* the threshold 0.45; else the combined score is the weighted sum and
\* is_phishing holds exactly when it is at least 0.45
C10OverridePolicy ==
    (Called /\ call.path = "scored") =>
        LET matched == call.result.matched_rules
            critical == Cardinality({i \in DOMAIN matched : matched[i].severity = "critical"})
            high == Cardinality({i \in DOMAIN matched : matched[i].severity = "high"})
            combined == call.combined_score
            phishing == call.result.is_phishing
        IN  IF critical >= 1 THEN combined >= 850000 /\ phishing
            ELSE IF high >= 2 THEN combined >= 650000 /\ phishing
            ELSE IF high = 1
            THEN combined >= 550000 /\ (phishing <=> combined >= 450000)
            ELSE combined = call.weighted /\ (phishing <=> combined >= 450000)

\* a scored call with two high rules, no critical rule and a weighted sum
\* below 0.65
C10Witness ==
    /\ call.path = "scored"
    /\ call.outcome = "returned"
    /\ CountSeverity(call.result.matched_rules, "critical") = 0
    /\ CountSeverity(call.result.matched_rules, "high") >= 2
    /\ call.weighted < 650000
    /\ call.combined_score = 650000

(***************************************************************************)
(* Properties of the threat-intel store.                                   *)
(***************************************************************************)

\* the suffixes of a name that is_blacklisted and is_whitelisted look up:
\* the name itself and its parents of at least two labels
LookedUp(name) ==
    {name} \cup { SubSeq(name, i, Len(name)) : i \in 1 .. (Len(name) - 1) }

\* every suffix of the label chain of a name, the last label alone included
SuffixChain(name) == { SubSeq(name, i, Len(name)) : i \in 1 .. Len(name) }

\* C5: when a domain matches both lists check_domain reports it whitelisted
\* and not blacklisted, and no result has both flags
C5WhitelistWins ==
    /\ \A d \in Probes :
          LET result == check_domain(d, blacklist, whitelist)
          IN  /\ ~(result.is_whitelisted /\ result.is_blacklisted)
              /\ (is_whitelisted(d, whitelist) /\ is_blacklisted(d, blacklist))
                    => (result.is_whitelisted /\ ~result.is_blacklisted)
    /\ \A p \in StoreProcs :
          (procs[p].op = "check_domain" /\ procs[p].pc = "done")
              => ~(procs[p].result.is_whitelisted /\ procs[p].result.is_blacklisted)

\* a completed check_domain of a domain that matches both lists
C5Witness ==
    \E p \in StoreProcs :
        /\ procs[p].op = "check_domain" /\ procs[p].pc = "done"
        /\ is_whitelisted(procs[p].arg, whitelist)
        /\ is_blacklisted(procs[p].arg, blacklist)
        /\ procs[p].result.is_whitelisted

\* C6 as stated: a domain is matched whenever any suffix of its label chain,
\* the last label alone included, is in the set
C6AnySuffix ==
    \A d \in Probes :
        /\ (\E s \in SuffixChain(d.name) : Str(s) \in blacklist)
              => is_blacklisted(d, blacklist)
        /\ (\E s \in SuffixChain(d.name) : Str(s) \in whitelist)
              => is_whitelisted(d, whitelist)

\* C6: a domain is matched exactly when its full name or one of its parents
\* of at least two labels is in the set; the last label alone does not match
\* a name of several labels
C6ParentSuffix ==
    \A d \in Probes :
        /\ is_blacklisted(d, blacklist) <=> (\E s \in LookedUp(d.name) : Str(s) \in blacklist)
        /\ is_whitelisted(d, whitelist) <=> (\E s \in LookedUp(d.name) : Str(s) \in whitelist)

\* a domain matched by a parent, and a domain not matched by its last label
C6Witness ==
    /\ Str(<<"paypal", "evil", "com">>) \notin blacklist
    /\ is_blacklisted(Str(<<"paypal", "evil", "com">>), blacklist)
    /\ Str(<<"com">>) \in whitelist
    /\ ~is_whitelisted(Str(<<"evil", "com">>), whitelist)

\* the effect of a completed operation when it runs alone
SerialEffect(proc, store) ==
    CASE proc.op = "add_to_blacklist" ->
            [store EXCEPT !.bl = @ \cup {LowerStrip(proc.arg)}]
      [] proc.op = "add_to_whitelist" ->
            [store EXCEPT !.wl = @ \cup {LowerStrip(proc.arg)}]
      [] proc.op = "remove_from_blacklist" ->
            [store EXCEPT !.bl = @ \ {LowerStrip(proc.arg)}]
      [] proc.op = "remove_from_whitelist" ->
            [store EXCEPT !.wl = @ \ {LowerStrip(proc.arg)}]
      [] proc.op = "update_blacklist" ->
            IF proc.result
            THEN [store EXCEPT !.bl = @ \cup parse_feed(proc.arg.lines)]
            ELSE store
      [] proc.op = "sync_from_database" ->
            LET rows == { proc.arg[i] : i \in DOMAIN proc.arg }
            IN  [ bl |-> store.bl \cup { Lower(r.indicator) :
                                           r \in { r \in rows : r.threat_type # "whitelist" } },
                  wl |-> store.wl \cup { Lower(r.indicator) :
                                           r \in { r \in rows : r.threat_type = "whitelist" } } ]
      [] OTHER -> store

\* the stores that the operations of the threads ps leave in some serial order
RECURSIVE SerialOutcomes(_, _)
SerialOutcomes(ps, store) ==
    IF ps = {} THEN {store}
    ELSE UNION { SerialOutcomes(ps \ {p}, SerialEffect(procs[p], store)) : p \in ps }

Quiescent == \A p \in StoreProcs : procs[p].pc \in {"idle", "done"}

\* C7: when no operation is under way the two sets are what the completed
\* operations leave in some serial order
C7NoLostUpdate ==
    Quiescent =>
        [bl |-> blacklist, wl |-> whitelist]
            \in SerialOutcomes({ p \in StoreProcs : procs[p].pc = "done" },
                               [bl |-> {}, wl |-> default_whitelist])

\* a feed has been merged and another thread has completed an add or a
\* remove on the blacklist
C7Witness ==
    /\ Quiescent
    /\ \E p \in StoreProcs :
          procs[p].op = "update_blacklist" /\ procs[p].pc = "done" /\ procs[p].result
    /\ \E p \in StoreProcs :
          procs[p].op = "add_to_blacklist" /\ procs[p].arg = Str(<<"com">>)
    /\ blacklist = {Str(<<"com">>), Str(<<"evil", "com">>)}

(***************************************************************************)
(* Properties of the model replacement.                                    *)
(***************************************************************************)

\* C8: a predict beside a replacement uses the old scaler with the old model
\* or the new fitted scaler with the new fitted model, and never an unfitted
\* object
C8AtomicSwap ==
    LET seen == procs.predictor
    IN  /\ seen.outcome # "raised"
        /\ seen.scaler # NoObject => seen.scaler.fitted
        /\ seen.model # NoObject =>
              (seen.model.fitted /\ seen.model.version = seen.scaler.version)
        /\ seen.proba_model # NoObject => seen.proba_model = seen.model

(***************************************************************************)
(* Properties of the scoring path.                                         *)
(***************************************************************************)

Scored == call.path = "scored" /\ call.outcome = "returned"

\* C11: on the scoring path the severity is critical from 0.8, high from 0.6,
\* medium from 0.4, low from 0.2 and info below; the verdict is malicious
\* when is_phishing, else safe below 0.2 and suspicious otherwise
C11SeverityVerdict ==
    Scored =>
        LET combined == call.combined_score
            result == call.result
        IN  /\ result.severity = "critical" <=> combined >= 800000
            /\ result.severity = "high" <=> (600000 <= combined /\ combined < 800000)
            /\ result.severity = "medium" <=> (400000 <= combined /\ combined < 600000)
            /\ result.severity = "low" <=> (200000 <= combined /\ combined < 400000)
            /\ result.severity = "info" <=> combined < 200000
            /\ result.verdict = "malicious" <=> result.is_phishing
            /\ result.verdict = "safe" <=> (~result.is_phishing /\ combined < 200000)
            /\ result.verdict = "suspicious" <=> (~result.is_phishing /\ combined >= 200000)

\* a scored call of severity high that is below 0.7
C11Witness ==
    /\ Scored
    /\ call.result.severity = "high"
    /\ call.combined_score < 700000

(***************************************************************************)
(* rule_engine.py: the aggregation of RuleEngine.analyze over the lists of *)
(* matched rules.  The rule list is open (add_rule), so a list of matched  *)
(* rules holds any number of rules of each severity, up to MaxMatched.     *)
(***************************************************************************)
MaxMatched == 6

RuleSeverities == <<"critical", "high", "medium", "low">>

\* the rules of the catalogue that have the severity sev
CatalogueOf(sev) == SelectSeq(rules, LAMBDA r : r.severity = sev)

\* what analyze appends for n matched rules of the severity sev
MatchedOf(sev, n) ==
    [ i \in 1 .. n |->
        LET rule == CatalogueOf(sev)[((i - 1) % Len(CatalogueOf(sev))) + 1]
        IN  [name |-> rule.name, score |-> rule.weight, severity |-> rule.severity] ]

\* a list of matched rules with counts[k] rules of the severity RuleSeverities[k]
MatchedList(counts) ==
    MatchedOf("critical", counts[1]) \o MatchedOf("high", counts[2])
        \o MatchedOf("medium", counts[3]) \o MatchedOf("low", counts[4])

NoRuleResult == RuleResult(<<>>, rules, FALSE)

InitRules ==
    /\ last_update = NeverUpdated
    /\ blacklist = {}
    /\ whitelist = default_whitelist
    /\ bert = CHOOSE b \in BertLoaderStates : ~b.has_model /\ b.is_loaded
    /\ now = 0
    /\ call = NoCall
    /\ ml = LoadedModel
    /\ \E counts \in [1 .. 4 -> 0 .. MaxMatched] :
          procs = [ pc |-> "matched", matched_rules |-> MatchedList(counts),
                    result |-> NoRuleResult, previous |-> NoRuleResult ]

\* analyze from the end of its loop to its return
rule_engine_analyze ==
    /\ procs.pc = "matched"
    /\ procs' = [procs EXCEPT !.pc = "returned",
                              !.result = RuleResult(procs.matched_rules, rules, FALSE)]
    /\ UNCHANGED <<last_update, blacklist, whitelist, bert, now, call, ml>>

\* analyze of features that match the same rules and one critical rule more
rule_engine_analyze_one_more_critical ==
    /\ procs.pc = "returned"
    /\ CountSeverity(procs.matched_rules, "critical") < MaxMatched
    /\ LET matched_rules ==
               MatchedOf("critical", 1) \o procs.matched_rules
       IN  procs' = [ pc |-> "returned_more", matched_rules |-> matched_rules,
                      result |-> RuleResult(matched_rules, rules, FALSE),
                      previous |-> procs.result ]
    /\ UNCHANGED <<last_update, blacklist, whitelist, bert, now, call, ml>>

NextRules ==
    \/ rule_engine_analyze
    \/ rule_engine_analyze_one_more_critical

SpecRules == InitRules /\ [][NextRules]_vars

(***************************************************************************)
(* Properties of the rule aggregation.                                     *)
(***************************************************************************)

Analysed == procs.pc \in {"returned", "returned_more"}

NumberOf(matched_rules, sev) ==
    Cardinality({ i \in DOMAIN matched_rules : matched_rules[i].severity = sev })

\* the highest severity among the matched rules
Highest(matched_rules) ==
    IF NumberOf(matched_rules, "critical") > 0 THEN "critical"
    ELSE IF NumberOf(matched_rules, "high") > 0 THEN "high"
    ELSE IF NumberOf(matched_rules, "medium") > 0 THEN "medium"
    ELSE "low"

\* base, increment and cap of a tier, and the base of the tier above it
Tier(sev) ==
    CASE sev = "critical" -> [base |-> 8500, inc |-> 500, cap |-> 10000, above |-> 10000]
      [] sev = "high" -> [base |-> 6000, inc |-> 1000, cap |-> 8500, above |-> 8500]
      [] sev = "medium" -> [base |-> 3000, inc |-> 1000, cap |-> 6000, above |-> 6000]
      [] sev = "low" -> [base |-> 1000, inc |-> 500, cap |-> 3000, above |-> 3000]

\* C12: no matched rule gives rule_score 0.0 and severity info; otherwise the
\* tier score is min(base(d) + inc(d)*(n-1), cap(d)) for the highest matched
\* severity d and its count n, it does not exceed the base of the next tier,
\* rule_score adds 0.10 capped at 1.0 when two severities are matched, the
\* severity is d and rule_score lies in [0, 1]
C12TieredAggregation ==
    Analysed =>
        LET matched == procs.result.matched_rules
            d == Highest(matched)
            n == NumberOf(matched, d)
            t == Tier(d)
            tier_score == IF t.base + t.inc * (n - 1) <= t.cap
                          THEN t.base + t.inc * (n - 1) ELSE t.cap
            spans == Cardinality({ matched[i].severity : i \in DOMAIN matched }) >= 2
        IN  /\ 0 <= procs.result.rule_score /\ procs.result.rule_score <= Unit
            /\ IF matched = <<>>
               THEN procs.result.rule_score = 0 /\ procs.result.severity = "info"
               ELSE /\ tier_score <= t.above
                    /\ procs.result.severity = d
                    /\ procs.result.rule_score =
                          IF spans
                          THEN (IF tier_score + 1000 <= Unit THEN tier_score + 1000 ELSE Unit)
                          ELSE tier_score

\* four high rules alone: the cap of the tier binds
C12Witness ==
    /\ Analysed
    /\ NumberOf(procs.result.matched_rules, "high") >= 4
    /\ Len(procs.result.matched_rules) = NumberOf(procs.result.matched_rules, "high")
    /\ procs.result.rule_score = 8500

\* C13: the rule score of a set of matched rules with one critical rule more
\* is at least the rule score of the set
C13Monotone ==
    procs.pc = "returned_more" => procs.result.rule_score >= procs.previous.rule_score

\* a critical rule joins four high rules and a medium rule, whose score is 0.95
C13Witness ==
    /\ procs.pc = "returned_more"
    /\ procs.previous.rule_score = 9500
    /\ NumberOf(procs.previous.matched_rules, "critical") = 0
    /\ procs.result.rule_score = 9500

(***************************************************************************)
(* The detection pipeline on the scenario URLs: one call of                *)
(* URLAnalyzer.extract_features, of RuleEngine.analyze on the extracted    *)
(* features, of BERTPhishingDetector.predict or of analyze_url, in the     *)
(* store as constructed and in every state the loader of the pattern       *)
(* classifier can leave.  call records the operation, its arguments and    *)
(* what it returned, until the caller has taken the result.                *)
(***************************************************************************)
\* probabilities[1] of the statistical model and of the sequence classifier,
\* over the whole range
ScanProbas == {0, 20000, 930000, Micro}

ScanBertProbas == {0, 730000, Micro, BertError}

NoScan == [op |-> None, url |-> None, result |-> None]

InitScan ==
    /\ last_update = NeverUpdated
    /\ blacklist = {}
    /\ whitelist = default_whitelist
    /\ bert \in BertLoaderStates
    /\ now = 0
    /\ call = NoScan
    /\ procs = NoProcs
    /\ ml = LoadedModel

scan_extract_features(url) ==
    /\ call.op = None
    /\ call' = [op |-> "extract_features", url |-> url, result |-> FeatureTable[url]]
    /\ UNCHANGED <<last_update, blacklist, whitelist, bert, now, procs, ml>>

scan_rule_engine_analyze(url) ==
    /\ call.op = None
    /\ call' = [op |-> "RuleEngine.analyze", url |-> url, features |-> FeatureTable[url],
                result |-> RuleTable[url]]
    /\ UNCHANGED <<last_update, blacklist, whitelist, bert, now, procs, ml>>

scan_bert_predict(url, bert_proba, response) ==
    /\ call.op = None
    /\ call' = [op |-> "BERTPhishingDetector.predict", url |-> url,
                bert_proba |-> bert_proba, response |-> response,
                char_result |-> CharTable[url][response],
                result |-> bert_predict(bert, url, bert_proba, CharTable[url][response])]
    /\ UNCHANGED <<last_update, blacklist, whitelist, bert, now, procs, ml>>

scan_analyze_url(url, proba, bert_proba, response) ==
    /\ call.op = None
    /\ call' = [op |-> "analyze_url", url |-> url,
                result |-> analyze_url(url, blacklist, whitelist, bert, proba, bert_proba,
                                       response, now)]
    /\ UNCHANGED <<last_update, blacklist, whitelist, bert, now, procs, ml>>

\* the caller takes the result
scan_return ==
    /\ call.op # None
    /\ call' = NoScan
    /\ UNCHANGED <<last_update, blacklist, whitelist, bert, now, procs, ml>>

NextScan ==
    \/ scan_return
    \/ \E url \in ScanUrls : scan_extract_features(url)
    \/ \E url \in ScanUrls : scan_rule_engine_analyze(url)
    \/ \E url \in ScanUrls, response \in Responses :
          \E bert_proba \in (IF Hybrid(bert) THEN ScanBertProbas ELSE {None}) :
              scan_bert_predict(url, bert_proba, response)
    \/ \E url \in ScanUrls, proba \in ScanProbas, response \in Responses :
          \E bert_proba \in (IF Hybrid(bert) THEN ScanBertProbas ELSE {None}) :
              scan_analyze_url(url, proba, bert_proba, response)

SpecScan == InitScan /\ [][NextScan]_vars

(***************************************************************************)
(* Properties of the detection pipeline.                                   *)
(***************************************************************************)
\* the names of the matched rules of a result of RuleEngine.analyze
MatchedNames(rule_result) ==
    { rule_result.matched_rules[i].name : i \in 1 .. Len(rule_result.matched_rules) }

\* C14: legitimate-domain fast path.  When the registrable domain of the URL
\* is in the fixed legitimate-domain allowlist, every entry of matched_rules
\* of RuleEngine.analyze carries the name of one of the two always-run rules.
C14FastPath ==
    (call.op = "RuleEngine.analyze" /\ RegisteredDomain(call.url) \in KNOWN_LEGITIMATE_DOMAINS)
        => MatchedNames(call.result) \subseteq always_run_rules

\* "http://paypa1-secure.com/login"
TyposquattingRecallUrl ==
    [https |-> FALSE, host |-> <<"paypa1-secure", "com">>, port |-> "", tail |-> "/login"]

\* C15: typosquatting recall.  extract_features("http://paypa1-secure.com/login")
\* yields typosquatting_target "paypal", a typosquatting_score above 0.7 and
\* is_typosquatting true.
C15TyposquattingRecall ==
    (call.op = "extract_features" /\ call.url = TyposquattingRecallUrl)
        => /\ call.result.typosquatting_target = "paypal"
           /\ call.result.typosquatting_score > 7000
           /\ call.result.is_typosquatting

\* "http://paypal.secure-login.malicious.com/signin"
Scenario2Url ==
    [https |-> FALSE, host |-> <<"paypal", "secure-login", "malicious", "com">>,
     port |-> "", tail |-> "/signin"]

\* C16: end-to-end scenario 2.  With malicious.com in neither list,
\* analyze_url("http://paypal.secure-login.malicious.com/signin") returns a
\* result whose matched rules include 'Brand in Subdomain' or 'Brand Mimicry',
\* one of whose matched rules has severity high or critical, and whose
\* verdict is 'malicious', whatever the two classifiers score.
C16Scenario2 ==
    (call.op = "analyze_url" /\ call.url = Scenario2Url)
        => /\ call.result.outcome = "returned"
           /\ MatchedNames(call.result.result)
                  \cap {"Brand in Subdomain", "Brand Mimicry"} # {}
           /\ \E i \in 1 .. Len(call.result.result.matched_rules) :
                  call.result.result.matched_rules[i].severity \in {"high", "critical"}
           /\ call.result.result.verdict = "malicious"

\* scenario 2 scanned with both classifiers at their lowest score
C16Witness ==
    /\ call.op = "analyze_url"
    /\ call.url = Scenario2Url
    /\ call.result.proba = 0
    /\ Hybrid(bert)
    /\ call.result.bert_proba = 0
    /\ call.result.result.verdict = "malicious"

\* "http://192.168.1.1/paypal/login.html"
Scenario3Url ==
    [https |-> FALSE, host |-> <<"192", "168", "1", "1">>, port |-> "",
     tail |-> "/paypal/login.html"]

\* C17: end-to-end scenario 3.  With 192.168.1.1 in neither list,
\* analyze_url("http://192.168.1.1/paypal/login.html") returns features with
\* has_ip true, 'IP Address in URL' among the matched rules, and severity
\* high or critical, whatever the two classifiers score.
C17Scenario3 ==
    (call.op = "analyze_url" /\ call.url = Scenario3Url)
        => /\ call.result.outcome = "returned"
           /\ call.result.result.features.has_ip
           /\ "IP Address in URL" \in MatchedNames(call.result.result)
           /\ call.result.result.severity \in {"high", "critical"}

\* scenario 3 scanned with both classifiers at their lowest score: the
\* weighted score is below 0.6 and the severity is high all the same
C17Witness ==
    /\ call.op = "analyze_url"
    /\ call.url = Scenario3Url
    /\ call.result.proba = 0
    /\ Hybrid(bert)
    /\ call.result.bert_proba = 0
    /\ call.result.weighted < 600000
    /\ call.result.result.severity = "high"

\* the probability of the sequence classifier entered combined_score: predict
\* took the hybrid branch and _get_bert_embedding_score did not fall back to
\* the character-level score
ClassifierScoreEntered ==
    Hybrid(bert) /\ call.bert_proba # BertError

\* C19: mode tagging of the pattern classifier.  In every loader state the
\* model_type of the result of BERTPhishingDetector.predict is the hybrid tag
\* exactly when the score of the sequence classifier entered combined_score,
\* and names the character-level fallback when the score came from the
\* fallback alone.
C19ModeTagging ==
    call.op = "BERTPhishingDetector.predict"
        => /\ (call.result.model_type = "bert_hybrid") <=> ClassifierScoreEntered
           /\ ~ClassifierScoreEntered
                  => call.result.model_type = "enhanced_character_level"

\* C20: safe-domain early exit of the pattern classifier.  For every URL whose
\* host is in the allowlist of safe domains, the fallback path of
\* BERTPhishingDetector.predict returns 0.02 as combined_score, whatever the
\* rest of the URL contains.
C20SafeDomainExit ==
    (call.op = "BERTPhishingDetector.predict" /\ ~Hybrid(bert) /\ is_safe_domain(call.url))
        => call.result.combined_score = 200

(***************************************************************************)
(* ml_detector.py: construction of PhishingMLDetector from the persisted   *)
(* artifact, and predict and train on the constructed detector.  procs     *)
(* holds the artifact at settings.ML_MODEL_PATH, the artifact _load_model  *)
(* found, and whether the singleton has been constructed.                  *)
(***************************************************************************)
\* the file: whether it exists, whether joblib or pickle can read it, and the
\* keys of the dictionary it holds
ValidArtifact == [exists |-> TRUE, readable |-> TRUE, keys |-> {"model", "scaler"}]

MissingArtifact == [exists |-> FALSE, readable |-> FALSE, keys |-> {}]

UnreadableArtifact == [exists |-> TRUE, readable |-> FALSE, keys |-> {}]

ArtifactStates ==
    {MissingArtifact, UnreadableArtifact}
        \cup { [exists |-> TRUE, readable |-> TRUE, keys |-> k] : k \in SUBSET {"model", "scaler"} }

\* self.model = None, self.scaler = None, self.is_loaded = False
NullModel == [scaler |-> NoObject, model |-> NoObject, is_loaded |-> FALSE]

\* _initialize_default_model: a new scaler and a new model, fitted
initialize_default_model(m) ==
    [ scaler |-> Fitted(m.scaler.version + 1),
      model |-> Fitted(m.scaler.version + 1),
      is_loaded |-> TRUE ]

\* _load_model without the default model when the artifact cannot be used
load_model_no_default(m, artifact) ==
    IF artifact.exists /\ artifact.readable /\ "model" \in artifact.keys
    THEN IF "scaler" \in artifact.keys
         THEN [ml |-> [scaler |-> Fitted(1), model |-> Fitted(1), is_loaded |-> TRUE],
               loaded |-> TRUE]
         ELSE [ml |-> [m EXCEPT !.model = Fitted(1)], loaded |-> FALSE]
    ELSE [ml |-> m, loaded |-> FALSE]

\* _load_model: the entries of a readable artifact are assigned in the order
\* model, scaler; a missing file, a failed read or a missing key ends in
\* _initialize_default_model
load_model(m, artifact) ==
    IF artifact.exists /\ artifact.readable /\ "model" \in artifact.keys
    THEN IF "scaler" \in artifact.keys
         THEN [ml |-> [scaler |-> Fitted(1), model |-> Fitted(1), is_loaded |-> TRUE],
               loaded |-> TRUE]
         ELSE [ml |-> initialize_default_model([m EXCEPT !.model = Fitted(1)]),
               loaded |-> FALSE]
    ELSE [ml |-> initialize_default_model(m), loaded |-> FALSE]

InitLoad ==
    /\ last_update = NeverUpdated
    /\ blacklist = {}
    /\ whitelist = default_whitelist
    /\ bert = CHOOSE b \in BertLoaderStates : ~b.has_model /\ b.is_loaded
    /\ now = 0
    /\ call = NoScan
    /\ ml = NullModel
    /\ \E artifact \in ArtifactStates :
           procs = [pc |-> "start", artifact |-> artifact, found |-> artifact]

\* ml_detector = PhishingMLDetector(): __init__ with _load_model, and
\* save_model after _initialize_default_model; saved is whether joblib.dump
\* wrote the file
PhishingMLDetector_init(saved) ==
    /\ procs.pc = "start"
    /\ LET r == load_model(NullModel, procs.artifact)
       IN  /\ ml' = r.ml
           /\ procs' = [ pc |-> "constructed",
                         found |-> procs.artifact,
                         artifact |-> IF ~r.loaded /\ saved THEN ValidArtifact
                                      ELSE procs.artifact ]
    /\ UNCHANGED <<last_update, blacklist, whitelist, bert, now, call>>

\* predict(url): the default model first when none is loaded, then the scaler
\* and the model it evaluates, and the probability of the model for the URL
PhishingMLDetector_predict(url, proba, saved) ==
    /\ procs.pc = "constructed"
    /\ call.op = None
    /\ LET bootstrap == ~ml.is_loaded \/ ml.model = NoObject
           m == IF bootstrap THEN initialize_default_model(ml) ELSE ml
       IN  /\ ml' = m
           /\ procs' = [procs EXCEPT !.artifact =
                           IF bootstrap /\ saved THEN ValidArtifact ELSE @]
           /\ call' = [ op |-> "PhishingMLDetector.predict", url |-> url,
                        scaler |-> m.scaler, model |-> m.model,
                        result |-> IF m.scaler = NoObject \/ m.model = NoObject
                                   THEN None ELSE ml_predict(url, proba) ]
    /\ UNCHANGED <<last_update, blacklist, whitelist, bert, now>>

\* train(urls, labels), as one step: a new fitted scaler and model, save_model
PhishingMLDetector_train(saved) ==
    /\ procs.pc = "constructed"
    /\ ml.scaler.version < MaxVersion
    /\ ml' = initialize_default_model(ml)
    /\ procs' = [procs EXCEPT !.artifact = IF saved THEN ValidArtifact ELSE @]
    /\ UNCHANGED <<last_update, blacklist, whitelist, bert, now, call>>

\* the caller of predict takes the result
predict_return ==
    /\ procs.pc = "constructed"
    /\ call.op # None
    /\ call' = NoScan
    /\ UNCHANGED <<last_update, blacklist, whitelist, bert, now, procs, ml>>

\* the process ends; the next one imports the module and constructs the
\* singleton from the artifact the last one left
process_exit ==
    /\ procs.pc = "constructed"
    /\ call.op = None
    /\ ml' = NullModel
    /\ procs' = [procs EXCEPT !.pc = "start"]
    /\ UNCHANGED <<last_update, blacklist, whitelist, bert, now, call>>

NextLoad ==
    \/ \E saved \in BOOLEAN : PhishingMLDetector_init(saved)
    \/ \E url \in ScanUrls, proba \in ScanProbas, saved \in BOOLEAN :
          PhishingMLDetector_predict(url, proba, saved)
    \/ \E saved \in BOOLEAN : PhishingMLDetector_train(saved)
    \/ predict_return
    \/ process_exit

SpecLoad == InitLoad /\ [][NextLoad]_vars

\* C18: the statistical classifier is always usable.  After construction,
\* whatever the artifact was (valid, missing, unreadable, without the model
\* or the scaler entry), is_loaded is true and model and scaler are set; and
\* predict never evaluates a null model or a null scaler.
C18AlwaysUsable ==
    /\ procs.pc = "constructed"
           => ml.is_loaded /\ ml.model # NoObject /\ ml.scaler # NoObject
    /\ call.op = "PhishingMLDetector.predict"
           => call.model # NoObject /\ call.scaler # NoObject

\* the artifact held a model and no scaler; the detector was constructed all
\* the same and predict has evaluated a fitted scaler and a fitted model
C18Witness ==
    /\ procs.pc = "constructed"
    /\ procs.found.keys = {"model"}
    /\ call.op = "PhishingMLDetector.predict"
    /\ call.scaler.fitted /\ call.model.fitted
    /\ call.result.ml_score = 9300

(***************************************************************************)
(* Properties of the feed, of the administration of the store and of the   *)
(* round trips on it.                                                      *)
(***************************************************************************)
\* the request raised, or the status of the response is not 200
FeedFailed(response) ==
    response.kind = "exception" \/ response.status_code # 200

\* C21: feed failure leaves the store unchanged.  No step of a call of
\* update_blacklist whose request raises or whose response has a status
\* other than 200 changes the blacklist, the whitelist or last_update, and
\* the call returns a record with success false.
C21FeedFailure ==
    [][\A p \in StoreProcs :
          /\ (procs[p].pc = "idle" /\ procs'[p].pc = "await")
                => UNCHANGED <<blacklist, whitelist, last_update>>
          /\ (procs[p].pc = "await" /\ procs'[p].pc = "done" /\ FeedFailed(procs'[p].arg))
                => /\ UNCHANGED <<blacklist, whitelist, last_update>>
                   /\ procs'[p].result = FALSE]_<<last_update, vars>>

\* a call of update_blacklist has failed after another one had merged the
\* feed: the merged entry and the time of the merge are still there
C21Witness ==
    /\ \E p \in StoreProcs :
          /\ procs[p].op = "update_blacklist" /\ procs[p].pc = "done"
          /\ FeedFailed(procs[p].arg) /\ procs[p].result = FALSE
    /\ \E p \in StoreProcs :
          procs[p].op = "update_blacklist" /\ procs[p].pc = "done" /\ procs[p].result = TRUE
    /\ last_update = 0
    /\ Str(<<"evil", "com">>) \in blacklist

\* C22: the ensemble weights sum to 1.0, and the combined score of every
\* result analyze_url returns lies in [0, 1], the floors of the override on
\* critical and high rules included.
C22ScoreRange ==
    /\ bert_weight + ml_weight + rule_weight = 100
    /\ (call.op = "analyze_url" /\ call.result.outcome = "returned")
          => /\ 0 <= call.result.weighted /\ call.result.weighted <= Micro
             /\ 0 <= call.result.combined_score /\ call.result.combined_score <= Micro
             /\ 0 <= call.result.result.confidence_score
             /\ call.result.result.confidence_score <= Unit

\* the three scorers at their highest on a URL with a critical rule: the
\* weighted score is above the floor of the override and stays within 1.0
C22Witness ==
    /\ call.op = "analyze_url"
    /\ call.result.path = "scored"
    /\ call.result.proba = Micro
    /\ CountSeverity(call.result.result.matched_rules, "critical") > 0
    /\ call.result.weighted > 850000
    /\ call.result.result.confidence_score > 8500

(***************************************************************************)
(* rule_engine.py: the rule list under remove_rule and add_rule.  A rule   *)
(* that is removed and added again stands at the end of the list, so the   *)
(* two operations bring the catalogue into any order.  procs holds the     *)
(* rule list of the engine and the number of removals so far.              *)
(***************************************************************************)
MaxRemovals == 2

\* the URLs that are analysed: the scenarios, a host of the allowlist and a
\* URL that matches rules of three severities
CatalogUrls ==
    { TyposquattingRecallUrl, Scenario2Url, Scenario3Url,
      [https |-> FALSE, host |-> <<"paypal", "com">>, port |-> "", tail |-> "/login"],
      [https |-> FALSE, host |-> <<"paypa1-secure", "com">>, port |-> "99999",
       tail |-> HighEntropyTail] }

RuleNames(rule_list) == { rule_list[i].name : i \in 1 .. Len(rule_list) }

InitCatalog ==
    /\ blacklist = {}
    /\ whitelist = default_whitelist
    /\ bert = CHOOSE b \in BertLoaderStates : ~b.has_model /\ b.is_loaded
    /\ now = 0
    /\ call = NoScan
    /\ ml = LoadedModel
    /\ last_update = NeverUpdated
    /\ procs = [rules |-> rules, removals |-> 0]

\* remove_rule(rule_name)
RuleEngine_remove_rule(rule_name) ==
    /\ call.op = None
    /\ procs.removals < MaxRemovals
    /\ rule_name \in RuleNames(procs.rules)
    /\ procs' = [ rules |-> SelectSeq(procs.rules, LAMBDA r : r.name # rule_name),
                  removals |-> procs.removals + 1 ]
    /\ UNCHANGED <<blacklist, whitelist, bert, now, call, ml, last_update>>

\* add_rule(rule), for a rule of the catalogue that had been removed
RuleEngine_add_rule(rule) ==
    /\ call.op = None
    /\ rule.name \notin RuleNames(procs.rules)
    /\ procs' = [procs EXCEPT !.rules = Append(@, rule)]
    /\ UNCHANGED <<blacklist, whitelist, bert, now, call, ml, last_update>>

\* analyze(url, features) on the features of the URL, with the rule list as
\* it stands
RuleEngine_analyze_call(url) ==
    /\ call.op = None
    /\ call' = [ op |-> "RuleEngine.analyze", url |-> url, features |-> FeatureTable[url],
                 rule_list |-> procs.rules,
                 result |-> RuleEngine_analyze(procs.rules, url, FeatureTable[url]) ]
    /\ UNCHANGED <<blacklist, whitelist, bert, now, procs, ml, last_update>>

\* the caller takes the result
RuleEngine_analyze_return ==
    /\ call.op # None
    /\ call' = NoScan
    /\ UNCHANGED <<blacklist, whitelist, bert, now, procs, ml, last_update>>

NextCatalog ==
    \/ \E i \in 1 .. Len(rules) : RuleEngine_remove_rule(rules[i].name)
    \/ \E i \in 1 .. Len(rules) : RuleEngine_add_rule(rules[i])
    \/ \E url \in CatalogUrls : RuleEngine_analyze_call(url)
    \/ RuleEngine_analyze_return

SpecCatalog == InitCatalog /\ [][NextCatalog]_vars

\* the rules of a rule list in the order of the catalogue as constructed
CatalogueOrder(rule_list) ==
    SelectSeq(rules, LAMBDA r : r.name \in RuleNames(rule_list))

\* C23: order independence of the rule catalogue.  For a URL and its
\* features, analyze returns the same rule_score, the same severity and the
\* same set of matched rules for the rule list in any order as for the same
\* rules in the order of construction.
C23OrderIndependence ==
    call.op = "RuleEngine.analyze"
        => LET reference ==
                   RuleEngine_analyze(CatalogueOrder(call.rule_list), call.url, call.features)
           IN  /\ call.result.rule_score = reference.rule_score
               /\ call.result.severity = reference.severity
               /\ MatchedNames(call.result) = MatchedNames(reference)
               /\ { call.result.matched_rules[i] : i \in 1 .. Len(call.result.matched_rules) }
                      = { reference.matched_rules[i] : i \in 1 .. Len(reference.matched_rules) }

\* scenario 2 analysed with the critical rule it matches moved behind the
\* rules of the lower severities
C23Witness ==
    /\ call.op = "RuleEngine.analyze"
    /\ call.url = Scenario2Url
    /\ Len(call.rule_list) = Len(rules)
    /\ call.rule_list[Len(rules)].name = "Brand Mimicry"
    /\ call.result.matched_rules[Len(call.result.matched_rules)].name = "Brand Mimicry"
    /\ Len(call.result.matched_rules) >= 2

\* C24: consistency of the result fields.  In every result analyze_url
\* returns, status is 'blocked' exactly when is_phishing is true exactly when
\* verdict is 'malicious'; verdict 'safe' comes with severity 'info',
\* 'suspicious' with 'low' or 'medium', 'malicious' with 'medium', 'high' or
\* 'critical'.
C24ResultConsistency ==
    call.outcome = "returned"
        => LET r == call.result
           IN  /\ (r.status = "blocked") <=> r.is_phishing
               /\ r.is_phishing <=> (r.verdict = "malicious")
               /\ r.verdict \in {"safe", "suspicious", "malicious"}
               /\ r.verdict = "safe" => r.severity = "info"
               /\ r.verdict = "suspicious" => r.severity \in {"low", "medium"}
               /\ r.verdict = "malicious" => r.severity \in {"medium", "high", "critical"}

\* a scored result that is not phishing and not safe
C24Witness ==
    /\ call.outcome = "returned"
    /\ call.path = "scored"
    /\ call.result.verdict = "suspicious"
    /\ call.result.status = "active"
    /\ call.result.severity = "low"

\* C25: a high or critical rule forces the verdict.  On the scoring path,
\* when a matched rule has the severity high or critical, the result has
\* is_phishing true, verdict 'malicious' and status 'blocked', whatever the
\* two classifiers score.
C25HighForcesMalicious ==
    (call.op = "analyze_url" /\ call.result.path = "scored"
         /\ call.result.outcome = "returned"
         /\ \E i \in 1 .. Len(call.result.result.matched_rules) :
                call.result.result.matched_rules[i].severity \in {"high", "critical"})
        => /\ call.result.result.is_phishing
           /\ call.result.result.verdict = "malicious"
           /\ call.result.result.status = "blocked"

\* one high rule and no critical rule, the weighted score below the
\* threshold: the floor of the single high rule decides
C25Witness ==
    /\ call.op = "analyze_url"
    /\ call.result.path = "scored"
    /\ CountSeverity(call.result.result.matched_rules, "high") = 1
    /\ CountSeverity(call.result.result.matched_rules, "critical") = 0
    /\ call.result.weighted < 450000
    /\ call.result.combined_score = 550000
    /\ call.result.result.is_phishing

\* C26: the rule score respects the severity order across match sets.  When
\* the dominant severity of the matched rules A is strictly higher than the
\* dominant severity of the matched rules B, rule_score(A) >= rule_score(B).
C26SeverityOrder ==
    Analysed
        => \A counts \in [1 .. 4 -> 0 .. MaxMatched] :
               LET B == MatchedList(counts)
               IN  SeverityIndex(MaxSeverity(B)) < SeverityIndex(procs.result.severity)
                       => NormalizedScore(B) <= procs.result.rule_score

(***************************************************************************)
(* analyze_url beside a store that holds full host names: the operations   *)
(* of the store take the indicator as the caller hands it in, a registrable *)
(* domain or a host with its subdomains.                                   *)
(***************************************************************************)
GateIndicators == { Str(<<"evil", "com">>), Str(<<"paypal", "evil", "com">>) }

GateUrls ==
    [ https : {FALSE},
      host : { <<"evil", "com">>, <<"paypal", "evil", "com">>, <<"google", "com">> },
      port : {""}, tail : {"/login"} ]

NextGate ==
    \/ \E d \in GateIndicators : add_to_blacklist(d)
    \/ \E d \in GateIndicators : add_to_whitelist(d)
    \/ \E d \in GateIndicators : remove_from_blacklist(d)
    \/ \E d \in GateIndicators : remove_from_whitelist(d)
    \/ \E url \in GateUrls, proba \in Probas, response \in Responses :
          \E bert_proba \in (IF Hybrid(bert) THEN BertProbas ELSE {None}) :
              AnalyzeUrl(url, proba, bert_proba, response)

SpecGate == Init /\ [][NextGate]_vars

\* what the store reports for the full host name of the URL of the latest call
FullHostGate == check_domain(Str(call.url.host), blacklist, whitelist)

\* C27: the gate of analyze_url agrees with the suffix matching of the store
\* on the full host.  When check_domain of the full host name of the URL
\* reports blacklisted and not whitelisted, analyze_url returns through the
\* blacklist path with verdict malicious; when it reports whitelisted,
\* analyze_url returns through the whitelist path.
C27GateFullHost ==
    Called
        => /\ (FullHostGate.is_blacklisted /\ ~FullHostGate.is_whitelisted)
                 => /\ call.path = "blacklist"
                    /\ call.outcome = "returned"
                    /\ call.result.verdict = "malicious"
           /\ FullHostGate.is_whitelisted
                 => call.path = "whitelist" /\ call.outcome = "returned"

(***************************************************************************)
(* RuleEngine.analyze on feature sets of its callers: the domain in either *)
(* case and with a look-alike character, with and without a subdomain, a   *)
(* path with a data URI.                                                   *)
(***************************************************************************)
FeatureDomains ==
    { <<"paypal", "com">>, <<"PAYPAL", "com">>, <<"p[U+0430]ypal", "com">>,
      <<"P[U+0410]YPAL", "com">>, <<"www", "paypal", "com">>, <<"evil", "com">> }

FeatureSubdomains == { <<>>, <<"www">>, <<"mail">> }

FeatureTails == { "/login", "/data:text/html" }

FeatureKeywords == { {}, {"login", "verify"} }

\* the feature sets handed to analyze for a URL with the given parts
FeatureSets(https, subdomain, domain, tail) ==
    { [FeatureDefaults EXCEPT !.domain = domain, !.subdomain = subdomain,
                              !.has_https = https, !.path = tail,
                              !.subdomain_count = Len(subdomain),
                              !.suspicious_keywords = kw, !.has_ip = ip] :
          kw \in FeatureKeywords, ip \in BOOLEAN }

\* analyze(url, features) with the rule list as constructed
RuleEngine_analyze_features(url, features) ==
    /\ call' = [ op |-> "RuleEngine.analyze", url |-> url, features |-> features,
                 rule_list |-> procs.rules,
                 result |-> RuleEngine_analyze(procs.rules, url, features) ]
    /\ UNCHANGED <<blacklist, whitelist, bert, now, procs, ml, last_update>>

NextFeatures ==
    \E https \in BOOLEAN, subdomain \in FeatureSubdomains, domain \in FeatureDomains,
       tail \in FeatureTails :
        \E features \in FeatureSets(https, subdomain, domain, tail) :
            RuleEngine_analyze_features(
                [https |-> https, host |-> subdomain \o domain, port |-> "", tail |-> tail],
                features)

SpecFeatures == InitCatalog /\ [][NextFeatures]_vars

\* C28: on the legitimate-domain fast path the homograph rule never matches.
\* Whenever is_known_legitimate_domain holds for the feature set of a call of
\* analyze, 'Potential Homograph Attack' is not among the matched rules, no
\* rule other than 'Data URI Scheme' is, and rule_score is 0.0 or 0.85.
C28NoHomographOnFastPath ==
    (call.op = "RuleEngine.analyze" /\ is_known_legitimate_domain(call.url, call.features))
        => /\ "Potential Homograph Attack" \notin MatchedNames(call.result)
           /\ MatchedNames(call.result) \subseteq {"Data URI Scheme"}
           /\ call.result.rule_score \in {0, 8500}

\* a call for the domain in upper case, known as legitimate once lowered, on
\* a URL with a data URI: the one rule that matches gives 0.85
C28Witness ==
    /\ call.op = "RuleEngine.analyze"
    /\ is_known_legitimate_domain(call.url, call.features)
    /\ call.features.domain = <<"PAYPAL", "com">>
    /\ MatchedNames(call.result) = {"Data URI Scheme"}
    /\ call.result.rule_score = 8500

(***************************************************************************)
(* api/threats.py: the administration of the indicators.  The table of     *)
(* ThreatIntel rows is the set procs; a row is the record [indicator,      *)
(* indicator_type, threat_type], and add_threat_intel keeps the indicator  *)
(* of a row unique.                                                        *)
(***************************************************************************)
AdminIndicators ==
    { Str(<<"google", "com">>), Str(<<"evil", "com">>),
      [name |-> <<"google", "com">>, upper |-> TRUE, pad |-> TRUE] }

\* threat types other than 'whitelist'
AdminThreatTypes == { "phishing", "malware" }

AdminIndicatorTypes == { "domain", "ip" }

InitAdmin ==
    /\ last_update = NeverUpdated
    /\ blacklist = {}
    /\ whitelist = default_whitelist
    /\ bert = CHOOSE b \in BertLoaderStates : ~b.has_model /\ b.is_loaded
    /\ now = 0
    /\ call = NoCall
    /\ procs = {}
    /\ ml = LoadedModel

\* POST /threats/intel: HTTP 400 when a row has the indicator, else the row
\* is stored and the indicator goes to the list of its threat type
add_threat_intel(indicator, indicator_type, threat_type) ==
    /\ ~\E existing \in procs : existing.indicator = Lower(indicator)
    /\ procs' = procs \cup { [ indicator |-> Lower(indicator),
                               indicator_type |-> indicator_type,
                               threat_type |-> threat_type ] }
    /\ IF threat_type # "whitelist"
       THEN /\ blacklist' = blacklist \cup {LowerStrip(indicator)}
            /\ whitelist' = whitelist
       ELSE /\ whitelist' = whitelist \cup {LowerStrip(indicator)}
            /\ blacklist' = blacklist
    /\ UNCHANGED <<last_update, bert, now, call, ml>>

\* DELETE /threats/intel/{intel_id} for the row intel
delete_threat_intel(intel) ==
    /\ intel \in procs
    /\ blacklist' = blacklist \ {LowerStrip(intel.indicator)}
    /\ whitelist' = whitelist \ {LowerStrip(intel.indicator)}
    /\ procs' = procs \ {intel}
    /\ UNCHANGED <<last_update, bert, now, call, ml>>

\* POST /threats/intel/sync: update_blacklist on the answer of the feed, then
\* sync_from_database on the rows of type domain or url
sync_threat_intel(response) ==
    LET r == update_blacklist(response, blacklist, last_update, now)
        threats == { t \in procs : t.indicator_type \in {"domain", "url"} }
    IN  /\ blacklist' = r.blacklist
                 \cup { Lower(t.indicator) : t \in { t \in threats : t.threat_type # "whitelist" } }
        /\ whitelist' = whitelist
                 \cup { Lower(t.indicator) : t \in { t \in threats : t.threat_type = "whitelist" } }
        /\ last_update' = r.last_update
        /\ UNCHANGED <<bert, now, call, procs, ml>>

NextAdmin ==
    \/ \E indicator \in AdminIndicators, indicator_type \in AdminIndicatorTypes,
          threat_type \in AdminThreatTypes :
           add_threat_intel(indicator, indicator_type, threat_type)
    \/ \E intel \in procs : delete_threat_intel(intel)
    \/ \E response \in FeedResponses : sync_threat_intel(response)

SpecAdmin == InitAdmin /\ [][NextAdmin]_vars

\* C29: the default safe-list survives administration.  After any sequence
\* of add_threat_intel, delete_threat_intel and sync_threat_intel on
\* indicators recorded with a threat type other than 'whitelist', check_domain
\* reports every domain of the built-in default whitelist as whitelisted.
C29DefaultWhitelistSurvives ==
    \A d \in default_whitelist : check_domain(d, blacklist, whitelist).is_whitelisted

(***************************************************************************)
(* Round trips on the store.  procs is the pair of the latest operation on *)
(* the store and the one before it, each with the indicator it was given   *)
(* and the two lists as they were when it started.                         *)
(***************************************************************************)
RoundTripIndicators ==
    { [name |-> <<"evil", "com">>, upper |-> u, pad |-> p] : u \in BOOLEAN, p \in BOOLEAN }
        \cup { Str(<<"google", "com">>) }

NoOperation == [op |-> None, domain |-> Str(<<>>), blacklist |-> {}, whitelist |-> {}]

Operation(op, domain) ==
    [op |-> op, domain |-> domain, blacklist |-> blacklist, whitelist |-> whitelist]

InitRoundTrip ==
    /\ last_update = NeverUpdated
    /\ blacklist = {}
    /\ whitelist = default_whitelist
    /\ bert = CHOOSE b \in BertLoaderStates : ~b.has_model /\ b.is_loaded
    /\ now = 0
    /\ call = NoCall
    /\ procs = <<NoOperation, NoOperation>>
    /\ ml = LoadedModel

ThreatIntelligenceService_add_to_blacklist(domain) ==
    /\ blacklist' = blacklist \cup {LowerStrip(domain)}
    /\ procs' = <<Operation("add_to_blacklist", domain), procs[1]>>
    /\ UNCHANGED <<last_update, whitelist, bert, now, call, ml>>

ThreatIntelligenceService_add_to_whitelist(domain) ==
    /\ whitelist' = whitelist \cup {LowerStrip(domain)}
    /\ procs' = <<Operation("add_to_whitelist", domain), procs[1]>>
    /\ UNCHANGED <<last_update, blacklist, bert, now, call, ml>>

ThreatIntelligenceService_remove_from_blacklist(domain) ==
    /\ blacklist' = blacklist \ {LowerStrip(domain)}
    /\ procs' = <<Operation("remove_from_blacklist", domain), procs[1]>>
    /\ UNCHANGED <<last_update, whitelist, bert, now, call, ml>>

ThreatIntelligenceService_remove_from_whitelist(domain) ==
    /\ whitelist' = whitelist \ {LowerStrip(domain)}
    /\ procs' = <<Operation("remove_from_whitelist", domain), procs[1]>>
    /\ UNCHANGED <<last_update, blacklist, bert, now, call, ml>>

NextRoundTrip ==
    \/ \E d \in RoundTripIndicators : ThreatIntelligenceService_add_to_blacklist(d)
    \/ \E d \in RoundTripIndicators : ThreatIntelligenceService_add_to_whitelist(d)
    \/ \E d \in RoundTripIndicators : ThreatIntelligenceService_remove_from_blacklist(d)
    \/ \E d \in RoundTripIndicators : ThreatIntelligenceService_remove_from_whitelist(d)

SpecRoundTrip == InitRoundTrip /\ [][NextRoundTrip]_vars

\* two raw indicators that differ in case and surrounding whitespace only
Variant(d1, d2) == d1.name = d2.name

\* no variant of the indicator is in the list
Absent(d, list) == ~\E e \in list : Variant(e, d)

\* the latest operation is op2 on a variant of the indicator of the operation
\* op1 before it
Followed(op1, op2) ==
    /\ procs[2].op = op1
    /\ procs[1].op = op2
    /\ Variant(procs[1].domain, procs[2].domain)

\* C30: add/remove round trip on the store.  After add_to_blacklist(d),
\* is_blacklisted holds for every case or whitespace variant of d; a
\* remove_from_blacklist of a variant that follows the add restores the
\* blacklist when d was not present before; a second add of a variant changes
\* nothing; none of the four operations changes the other list.  The same for
\* the whitelist operations and the blacklist.
C30RoundTrip ==
    /\ procs[1].op = "add_to_blacklist"
          => \A d \in RoundTripIndicators :
                 Variant(d, procs[1].domain) => is_blacklisted(d, blacklist)
    /\ procs[1].op = "add_to_whitelist"
          => \A d \in RoundTripIndicators :
                 Variant(d, procs[1].domain) => is_whitelisted(d, whitelist)
    /\ (Followed("add_to_blacklist", "remove_from_blacklist")
            /\ Absent(procs[2].domain, procs[2].blacklist))
          => blacklist = procs[2].blacklist
    /\ (Followed("add_to_whitelist", "remove_from_whitelist")
            /\ Absent(procs[2].domain, procs[2].whitelist))
          => whitelist = procs[2].whitelist
    /\ Followed("add_to_blacklist", "add_to_blacklist") => blacklist = procs[1].blacklist
    /\ Followed("add_to_whitelist", "add_to_whitelist") => whitelist = procs[1].whitelist
    /\ procs[1].op \in {"add_to_blacklist", "remove_from_blacklist"}
          => whitelist = procs[1].whitelist
    /\ procs[1].op \in {"add_to_whitelist", "remove_from_whitelist"}
          => blacklist = procs[1].blacklist

\* an indicator in upper case between spaces is added to a blacklist that
\* holds another name, and removed under another spelling
C30Witness ==
    /\ Followed("add_to_blacklist", "remove_from_blacklist")
    /\ procs[2].domain.upper /\ procs[2].domain.pad
    /\ ~procs[1].domain.upper /\ ~procs[1].domain.pad
    /\ Absent(procs[2].domain, procs[2].blacklist)
    /\ procs[2].blacklist # {}
    /\ blacklist = procs[2].blacklist

====
